---- MODULE Spec2Model ----
(***************************************************************************)
(* Anti-detection scraping core of CorpCraftOS:                            *)
(*   - aicrm/middleware/proxy_pool.py     ProxyInfo, ProxyPool   (SpecPool)*)
(*   - aicrm_system/.../anti_detection.py ProxyPool              (SpecAD)  *)
(*   - aicrm_system/.../scraper.py        RateLimiter            (SpecRL)  *)
(* Every component has its own variables, initial state and next-state     *)
(* relation; a component's specification leaves the others' variables      *)
(* unchanged.                                                              *)
(***************************************************************************)
EXTENDS Integers, Sequences, FiniteSets, TLC

VARIABLES
    \* ---- aicrm/middleware/proxy_pool.py ----
    heap,       \* every ProxyInfo object ever created, by object id (index)
    proxies,    \* ProxyPool.proxies: the dict's values (object ids), in dict order
    lock,       \* ProxyPool._lock: its holder ("none" when unlocked), its waiters
    task,       \* per client task: position in the coroutine and its locals
    file,       \* content of save_path: <<"absent">> or <<"saved", records>>
    auto_fetch, \* ProxyPool.auto_fetch (constructor parameter)
    bg,         \* ProxyPool._validation_task: the background validation loop
    now,        \* wall clock, in hours
    \* ---- aicrm_system/backend/app/services/anti_detection.py ----
    ad,         \* the Proxy objects, pool lists, lock and coroutine positions
    \* ---- aicrm_system/backend/app/services/scraper.py ----
    rl,         \* RateLimiter fields, its lock, the clock and the callers
    \* ---- one ProxyInfo of proxy_pool.py taken alone ----
    hist,       \* the outcomes recorded on the candidate, oldest first
    \* ---- aicrm/middleware/captcha_solver.py ----
    cap,        \* the cascade of HybridCaptchaSolver.solve: position and attempts
    \* ---- aicrm/middleware/proxy.py ----
    px,         \* ProxyPool of proxy.py: its ProxyInfo objects and its list
    \* ---- the remote solvers of the three captcha modules ----
    rm,         \* one submit-then-poll exchange with the provider
    \* ---- aicrm/spiders/base.py, aicrm/middleware/anti_spider.py ----
    mw,         \* the downloader middlewares and the request they handle
    \* ---- aicrm_system/backend/app/services/scraper.py ----
    ws          \* WebScraper: its ProxyRotator and the fetches it performs

poolVars == <<heap, proxies, lock, task, file, auto_fetch, bg, now>>
vars == <<heap, proxies, lock, task, file, auto_fetch, bg, now, ad, rl, hist, cap, px, rm, mw, ws>>

(***************************************************************************)
(* Bounds of the model.                                                    *)
(***************************************************************************)
MaxRequests == 4      \* outcomes recorded in one run (on all ProxyInfo together)

Tasks == {"t1", "t2"}
Urls == {"http://a:1", "http://b:2"}
Clock == {0, 24}      \* the clock readings, in hours
Thresholds == {30, 60}
FetchLists == {<< >>, <<"http://a:1">>, <<"http://b:2", "http://a:1">>}

None == -1

(***************************************************************************)
(* Fixed-point representation of the floats of ProxyInfo.                  *)
(*   avg_response_time is kept in units of 1/RTUnit second; the moving     *)
(*   average 0.8*avg + 0.2*rt divides by 5 once per success, so 5^k keeps  *)
(*   k successive averages exact.                                          *)
(*   success_rate and quality_score are kept as exact fractions           *)
(*   [num, den] in lowest terms (of 1, and of a point).  The parts of the  *)
(*   score other than the success rate are multiples of 1/QScale point:    *)
(*   QScale is divisible by RTUnit and by 2.                               *)
(***************************************************************************)
RECURSIVE Pow(_, _)
Pow(b, e) == IF e = 0 THEN 1 ELSE b * Pow(b, e - 1)

RTUnit == Pow(5, MaxRequests)
QScale == 2 * RTUnit
ResponseTimes == {RTUnit}     \* 1 s

Max(a, b) == IF a >= b THEN a ELSE b
Min(a, b) == IF a <= b THEN a ELSE b

RECURSIVE Gcd(_, _)
Gcd(a, b) == IF b = 0 THEN a ELSE Gcd(b, a % b)

\* the fraction n / d (d > 0) in lowest terms
Frac(n, d) ==
    LET g == Gcd(IF n < 0 THEN -n ELSE n, d)
    IN [num |-> n \div g, den |-> d \div g]

\* the sum of two fractions, over the least common denominator
FracAdd(a, b) ==
    LET l == (a.den \div Gcd(a.den, b.den)) * b.den
    IN Frac(a.num * (l \div a.den) + b.num * (l \div b.den), l)

\* a fraction against a whole number
FracAtLeast(a, n) == a.num >= n * a.den

(***************************************************************************)
(* ProxyInfo (proxy_pool.py)                                               *)
(***************************************************************************)
\* ProxyStatus members; a status read back from the save file is the bare
\* string value ("working", ...), which is equal to no member.
UNKNOWN == "ProxyStatus.UNKNOWN"
WORKING == "ProxyStatus.WORKING"
FAILED == "ProxyStatus.FAILED"
TESTING == "ProxyStatus.TESTING"

StatusValue(st) ==
    CASE st = UNKNOWN -> "unknown"
      [] st = WORKING -> "working"
      [] st = FAILED -> "failed"
      [] st = TESTING -> "testing"
      [] OTHER -> st

\* the ProxyType members; a proxy_type read back from the save file is the
\* bare string value, which is no member
ProxyTypes == {"ProxyType.HTTP", "ProxyType.HTTPS", "ProxyType.SOCKS5"}

\* add_proxy: the ProxyType member for the prefix of proxy_url (HTTP unless
\* the url starts with https or with socks5)
ProxyTypeOf(url) ==
    CASE url \in {"https://a:1"} -> "ProxyType.HTTPS"
      [] url \in {"socks5://a:1"} -> "ProxyType.SOCKS5"
      [] OTHER -> "ProxyType.HTTP"

TypeValue(ty) ==
    CASE ty = "ProxyType.HTTP" -> "http"
      [] ty = "ProxyType.HTTPS" -> "https"
      [] ty = "ProxyType.SOCKS5" -> "socks5"
      [] OTHER -> ty

\* ProxyInfo(proxy_url=..., proxy_type=..., source=...): the dataclass defaults
NewProxyInfo(url) ==
    [proxy_url |-> url,
     proxy_type |-> ProxyTypeOf(url),
     success_count |-> 0,
     failure_count |-> 0,
     total_requests |-> 0,
     avg_response_time |-> 0,
     last_success_time |-> None,
     quality_score |-> Frac(50, 1),
     status |-> UNKNOWN]

\* the property success_rate: success_count / total_requests
success_rate(p) ==
    IF p.total_requests = 0 THEN Frac(0, 1)
    ELSE Frac(p.success_count, p.total_requests)

\* a score whose response-time part is not held at 0 or above
update_quality_score_unclamped(p, t) ==
    LET success_rate_score ==
            Frac(success_rate(p).num * 40, success_rate(p).den)
        response_time_score ==
            30 * QScale - p.avg_response_time * 30 * (QScale \div RTUnit)
        recent_success_score ==
            IF p.last_success_time # None
            THEN Max(0, 20 - (t - p.last_success_time)) * QScale
            ELSE 0
        stability_score == Max(0, 10 * QScale - p.failure_count * (QScale \div 2))
    IN [p EXCEPT !.quality_score =
            FracAdd(success_rate_score,
                    Frac(response_time_score + recent_success_score
                         + stability_score, QScale))]

\* the score update_quality_score stores, at clock t
update_quality_score(p, t) ==
    LET success_rate_score ==
            Frac(success_rate(p).num * 40, success_rate(p).den)
        response_time_score ==
            Max(0, 30 * QScale - p.avg_response_time * 30 * (QScale \div RTUnit))
        recent_success_score ==
            IF p.last_success_time # None
            THEN Max(0, 20 - (t - p.last_success_time)) * QScale
            ELSE 0
        stability_score == Max(0, 10 * QScale - p.failure_count * (QScale \div 2))
    IN [p EXCEPT !.quality_score =
            FracAdd(success_rate_score,
                    Frac(response_time_score + recent_success_score
                         + stability_score, QScale))]

record_success(p, response_time, t) ==
    LET q == [p EXCEPT
                !.success_count = @ + 1,
                !.total_requests = @ + 1,
                !.last_success_time = t,
                !.status = WORKING,
                !.avg_response_time =
                    IF @ = 0 THEN response_time
                    ELSE (@ * 4 + response_time) \div 5]
    IN update_quality_score(q, t)

FailsToFailed(p) == p.failure_count >= 3 /\ p.failure_count > p.success_count

\* a record_failure that leaves total_requests as it was
record_failure_uncounted(p, t) ==
    LET q == [p EXCEPT !.failure_count = @ + 1]
        r == IF FailsToFailed(q) THEN [q EXCEPT !.status = FAILED] ELSE q
    IN update_quality_score(r, t)

record_failure(p, t) ==
    LET q == [p EXCEPT
                !.failure_count = @ + 1,
                !.total_requests = @ + 1]
        r == IF FailsToFailed(q) THEN [q EXCEPT !.status = FAILED] ELSE q
    IN update_quality_score(r, t)

(***************************************************************************)
(* ProxyPool (proxy_pool.py): constructor parameters                       *)
(***************************************************************************)
min_size == 1
max_size == 1

\* ProxyInfo objects created in a run (by add_proxy and _load_proxies)
MaxObjects == 2
RemoveThreshold == 10     \* mark_failure: failure_count >= 10

\* outcomes recorded so far; the guards of the recording steps keep it bounded
RECURSIVE Recorded(_)
Recorded(h) == IF h = << >> THEN 0 ELSE Head(h).total_requests + Recorded(Tail(h))

IdleTask ==
    [pc |-> "idle", op |-> "none", held |-> 0, thr |-> 0,
     urlq |-> << >>, added |-> 0, vpend |-> {}, vrun |-> {}]

\* asyncio.Lock(): unlocked, nobody waits
NoLock == [holder |-> "none", waiters |-> << >>]

\* a lock that its holder could take again
LockFreeReentrant(self) ==
    lock.holder \in {"none", self} /\ lock.waiters \in {<< >>, <<self>>}

\* asyncio.Lock.acquire() returns without suspension only when the lock is
\* unlocked and nobody waits for it: the lock is not reentrant, and a waiter
\* that release() has woken goes first (the waiters are served in order)
LockFree(self) == lock.holder = "none" /\ lock.waiters = << >>

\* self is the waiter that release() has woken, and has not run yet
LockWoken(self) ==
    /\ lock.holder = "none"
    /\ lock.waiters # << >>
    /\ Head(lock.waiters) = self

\* acquire() suspends: self joins the waiters
LockWait(self) == [lock EXCEPT !.waiters = Append(@, self)]

\* release(): the lock is unlocked and its first waiter is woken
Released(w) == [holder |-> "none", waiters |-> w]

\* position of the dict key of url in proxies, 0 when absent
RECURSIVE KeyIndex(_, _, _, _)
KeyIndex(h, ps, url, i) ==
    IF i > Len(ps) THEN 0
    ELSE IF h[ps[i]].proxy_url = url THEN i
    ELSE KeyIndex(h, ps, url, i + 1)

\* add_proxy, inside its lock: pool state st = [heap, proxies, added]
add_proxy(st, url) ==
    IF KeyIndex(st.heap, st.proxies, url, 1) # 0 THEN st
    ELSE [heap |-> Append(st.heap, NewProxyInfo(url)),
          proxies |-> Append(st.proxies, Len(st.heap) + 1),
          added |-> st.added + 1]

\* auto_fetch_proxies: the loop over new_proxies
RECURSIVE AddAll(_, _)
AddAll(st, urls) ==
    IF urls = << >> THEN st
    ELSE AddAll(add_proxy(st, Head(urls)), Tail(urls))

\* remove_proxy
remove_proxy(h, ps, url) ==
    SelectSeq(ps, LAMBDA o : h[o].proxy_url # url)

\* _save_proxies: one dict per ProxyInfo; .value of a str (a reloaded
\* proxy_type) raises, the except clause logs and the file is left as it was
SaveRecord(p) == [p EXCEPT !.proxy_type = TypeValue(@), !.status = StatusValue(@)]

save_proxies(h, ps, old) ==
    IF \E i \in 1..Len(ps) : h[ps[i]].proxy_type \notin ProxyTypes
    THEN old
    ELSE [i \in 1..Len(ps) |-> SaveRecord(h[ps[i]])]

\* _load_proxies: ProxyInfo(**proxy_data), stored under the hash of its url
RECURSIVE load_proxies(_, _)
load_proxies(st, data) ==
    IF data = << >> THEN st
    ELSE LET k == KeyIndex(st.heap, st.proxies, Head(data).proxy_url, 1)
             oid == Len(st.heap) + 1
             next == [heap |-> Append(st.heap, Head(data)),
                      proxies |-> IF k = 0 THEN Append(st.proxies, oid)
                                  ELSE [st.proxies EXCEPT ![k] = oid],
                      added |-> st.added]
         IN load_proxies(next, Tail(data))

\* get_proxy: the two filters and the weighted draw
Available(h, ps, threshold) ==
    SelectSeq(ps, LAMBDA o : h[o].status = WORKING
                             /\ FracAtLeast(h[o].quality_score, threshold))

\* a fallback filter that lets every candidate through
FallbackAny(h, ps) == ps

Fallback(h, ps) == SelectSeq(ps, LAMBDA o : h[o].status # FAILED)

RECURSIVE SumWeights(_, _)
SumWeights(h, av) ==
    IF av = << >> THEN Frac(0, 1)
    ELSE FracAdd(h[Head(av)].quality_score, SumWeights(h, Tail(av)))

\* the candidates the draw can return: rand = uniform(0, total_weight) returns
\* the first candidate whose running sum reaches rand
Choosable(h, av) ==
    IF SumWeights(h, av).num = 0 THEN {av[i] : i \in 1..Len(av)}
    ELSE {av[i] : i \in {j \in 1..Len(av) :
                           j = 1 \/ h[av[j]].quality_score.num > 0}}

(***************************************************************************)
(* ProxyPool (proxy_pool.py): the coroutines.  A step runs a coroutine     *)
(* from one suspension point (an await that really suspends: a held lock,  *)
(* the network, sleep, gather) to the next.                                *)
(***************************************************************************)
\* the validation task of a pool that was not initialized: _validation_task
\* is None.  shutdown records that a shutdown call has returned and that
\* initialize was not called since
NoValidationTask == [pc |-> "none", queue |-> << >>, shutdown |-> FALSE]

PoolInit ==
    /\ heap = << >>
    /\ proxies = << >>
    /\ lock = NoLock
    /\ task = [t \in Tasks |-> IdleTask]
    /\ file = << >>
    /\ auto_fetch \in BOOLEAN
    /\ bg = NoValidationTask
    /\ now = 0
    /\ ad = "unused"
    /\ rl = "unused"
    /\ hist = "unused"
    /\ cap = "unused"
    /\ px = "unused"
    /\ rm = "unused"
    /\ mw = "unused"
    /\ ws = "unused"

\* get_proxy(quality_threshold) returns r (0 for None) to its caller: the lock
\* is released on the way out, with w waiting for it
GetProxyReturn(t, quality_threshold, r, w) ==
    /\ task' = [task EXCEPT ![t] =
            [IdleTask EXCEPT !.pc = "holding", !.held = r, !.thr = quality_threshold]]
    /\ lock' = Released(w)

\* get_proxy from the fallback filter to the return
GetProxyFallback(t, quality_threshold, h, ps, w) ==
    LET available == Fallback(h, ps)
    IN IF available = << >> THEN GetProxyReturn(t, quality_threshold, 0, w)
       ELSE \E r \in Choosable(h, available) :
               GetProxyReturn(t, quality_threshold, r, w)

\* get_proxy, once it holds the lock, up to its return or to the await of
\* fetch_from_free_sources inside auto_fetch_proxies; w waits for the lock
GetProxyLocked(t, quality_threshold, w) ==
    LET available == Available(heap, proxies, quality_threshold)
    IN IF available # << >>
       THEN \E r \in Choosable(heap, available) :
               GetProxyReturn(t, quality_threshold, r, w)
       ELSE IF auto_fetch
            THEN /\ lock' = [holder |-> t, waiters |-> w]
                 /\ task' = [task EXCEPT ![t] =
                        [IdleTask EXCEPT !.pc = "af_fetch", !.op = "get_proxy",
                                         !.thr = quality_threshold]]
            ELSE GetProxyFallback(t, quality_threshold, heap, proxies, w)

GetProxyCall(t, quality_threshold) ==
    /\ task[t].pc = "idle"
    /\ IF LockFree(t)
       THEN GetProxyLocked(t, quality_threshold, << >>)
       ELSE /\ task' = [task EXCEPT ![t] =
                   [IdleTask EXCEPT !.pc = "gp_lock", !.op = "get_proxy",
                                    !.thr = quality_threshold]]
            /\ lock' = LockWait(t)
    /\ UNCHANGED <<heap, proxies, file, auto_fetch, bg, now, ad, rl, hist, cap, px, rm, mw, ws>>

\* get_proxy, waiting for the lock, is woken and takes it
GetProxyAcquire(t) ==
    /\ task[t].pc = "gp_lock"
    /\ LockWoken(t)
    /\ GetProxyLocked(t, task[t].thr, Tail(lock.waiters))
    /\ UNCHANGED <<heap, proxies, file, auto_fetch, bg, now, ad, rl, hist, cap, px, rm, mw, ws>>

\* the caller got None and goes on
ReturnedNone(t) ==
    /\ task[t].pc = "holding"
    /\ task[t].held = 0
    /\ task' = [task EXCEPT ![t] = IdleTask]
    /\ UNCHANGED <<heap, proxies, lock, file, auto_fetch, bg, now, ad, rl, hist, cap, px, rm, mw, ws>>

\* mark_success(proxy_info, response_time): no lock, no suspension
MarkSuccess(t, response_time) ==
    /\ task[t].pc = "holding"
    /\ task[t].held # 0
    /\ Recorded(heap) < MaxRequests
    /\ heap' = [heap EXCEPT ![task[t].held] = record_success(@, response_time, now)]
    /\ task' = [task EXCEPT ![t] = IdleTask]
    /\ UNCHANGED <<proxies, lock, file, auto_fetch, bg, now, ad, rl, hist, cap, px, rm, mw, ws>>

\* mark_failure(proxy_info, error) on object o: record_failure, then
\* remove_proxy at 10 failures
mark_failure(h, ps, o, t) ==
    LET p == record_failure(h[o], t)
    IN [heap |-> [h EXCEPT ![o] = p],
        proxies |-> IF p.failure_count >= RemoveThreshold
                    THEN remove_proxy(h, ps, p.proxy_url)
                    ELSE ps]

MarkFailure(t) ==
    /\ task[t].pc = "holding"
    /\ task[t].held # 0
    /\ Recorded(heap) < MaxRequests
    /\ LET st == mark_failure(heap, proxies, task[t].held, now)
       IN /\ heap' = st.heap
          /\ proxies' = st.proxies
    /\ task' = [task EXCEPT ![t] = IdleTask]
    /\ UNCHANGED <<lock, file, auto_fetch, bg, now, ad, rl, hist, cap, px, rm, mw, ws>>

\* initialize, after auto_fetch_proxies or without it: start _validation_loop
\* when no validation task exists yet
StartValidationTask(b) == IF b.pc = "none" THEN [b EXCEPT !.pc = "sleep"] ELSE b

\* auto_fetch_proxies has returned to its caller, with pool state (h, ps)
\* and lock lk: get_proxy goes on to its fallback filter and releases the
\* lock it holds, initialize goes on to start the validation task, and a
\* client that called auto_fetch_proxies itself has its call back
AfterAutoFetch(t, h, ps, lk) ==
    CASE task[t].op = "get_proxy" ->
            /\ GetProxyFallback(t, task[t].thr, h, ps, lk.waiters)
            /\ bg' = bg
      [] task[t].op = "initialize" ->
            /\ task' = [task EXCEPT ![t] = IdleTask]
            /\ lock' = lk
            /\ bg' = StartValidationTask(bg)
      [] OTHER ->
            /\ task' = [task EXCEPT ![t] = IdleTask]
            /\ lock' = lk
            /\ bg' = bg

\* the candidates validate_all makes a _validate_single for
ToValidate(h, ps) ==
    {ps[i] : i \in {j \in 1..Len(ps) : h[ps[j]].status # FAILED}}

\* auto_fetch_proxies after its add_proxy loop, which has left the pool st
\* and the lock lk: validate_all up to its gather when a proxy was added
AutoFetchAdded(t, st, lk) ==
    /\ heap' = st.heap
    /\ proxies' = st.proxies
    /\ IF st.added > 0
       THEN /\ task' = [task EXCEPT ![t].pc = "af_validate",
                                    ![t].urlq = << >>,
                                    ![t].added = 0,
                                    ![t].vpend = ToValidate(st.heap, st.proxies)]
            /\ lock' = lk
            /\ bg' = bg
       ELSE AfterAutoFetch(t, st.heap, st.proxies, lk)

\* fetch_from_free_sources has answered with the list urls: the add_proxy
\* loop.  Each add_proxy takes and releases the lock; with the lock free
\* and nobody waiting the loop runs through without suspension, otherwise
\* the first add_proxy waits for the lock.
AutoFetchFetched(t, urls) ==
    /\ task[t].pc = "af_fetch"
    /\ Len(heap) + Len(urls) <= MaxObjects
    /\ IF urls = << >>
       THEN /\ AfterAutoFetch(t, heap, proxies, lock)
            /\ UNCHANGED <<heap, proxies>>
       ELSE IF LockFree(t)
            THEN AutoFetchAdded(t, AddAll([heap |-> heap, proxies |-> proxies,
                                           added |-> 0], urls), lock)
            ELSE /\ task' = [task EXCEPT ![t].pc = "af_add_lock", ![t].urlq = urls,
                                         ![t].added = 0]
                 /\ lock' = LockWait(t)
                 /\ UNCHANGED <<heap, proxies, bg>>
    /\ UNCHANGED <<file, auto_fetch, now, ad, rl, hist, cap, px, rm, mw, ws>>

\* add_proxy, called by the loop of auto_fetch_proxies, is woken: it takes
\* the lock, adds its url and releases the lock, which wakes the next waiter.
\* With nobody waiting the loop runs through the urls left; otherwise the
\* next add_proxy joins the waiters, behind the waiter just woken.
AutoFetchAcquire(t) ==
    /\ task[t].pc = "af_add_lock"
    /\ LockWoken(t)
    /\ LET w == Tail(lock.waiters)
           st == add_proxy([heap |-> heap, proxies |-> proxies,
                            added |-> task[t].added], Head(task[t].urlq))
           rest == Tail(task[t].urlq)
       IN IF rest = << >> \/ w = << >>
          THEN AutoFetchAdded(t, AddAll(st, rest), Released(w))
          ELSE /\ heap' = st.heap
               /\ proxies' = st.proxies
               /\ task' = [task EXCEPT ![t].urlq = rest, ![t].added = st.added]
               /\ lock' = Released(Append(w, t))
               /\ bg' = bg
    /\ UNCHANGED <<file, auto_fetch, now, ad, rl, hist, cap, px, rm, mw, ws>>

\* validate_all: gather schedules one task per coroutine, and the event loop
\* runs their first steps back to back (FIFO): each _validate_single sets
\* status = TESTING and then awaits its probe
RECURSIVE SetTesting(_, _)
SetTesting(h, os) ==
    IF os = {} THEN h
    ELSE LET o == CHOOSE x \in os : TRUE
         IN SetTesting([h EXCEPT ![o].status = TESTING], os \ {o})

ValidateStart(t) ==
    /\ task[t].pc = "af_validate"
    /\ task[t].vpend # {}
    /\ heap' = SetTesting(heap, task[t].vpend)
    /\ task' = [task EXCEPT ![t].vpend = {}, ![t].vrun = task[t].vpend]
    /\ UNCHANGED <<proxies, lock, file, auto_fetch, bg, now, ad, rl, hist, cap, px, rm, mw, ws>>

\* _validate_single, second half: the probe has answered
validate_result(p, valid, response_time, t) ==
    IF valid THEN record_success(p, response_time, t) ELSE record_failure(p, t)

ValidateFinish(t, o, valid, response_time) ==
    /\ task[t].pc = "af_validate"
    /\ o \in task[t].vrun
    /\ Recorded(heap) < MaxRequests
    /\ heap' = [heap EXCEPT ![o] = validate_result(@, valid, response_time, now)]
    /\ task' = [task EXCEPT ![t].vrun = @ \ {o}]
    /\ UNCHANGED <<proxies, lock, file, auto_fetch, bg, now, ad, rl, hist, cap, px, rm, mw, ws>>

\* validate_all after its gather: _save_proxies, back to its caller, which
\* is auto_fetch_proxies or the client
ValidateAllDone(t) ==
    /\ task[t].pc = "af_validate"
    /\ task[t].vpend = {}
    /\ task[t].vrun = {}
    /\ file' = save_proxies(heap, proxies, file)
    /\ IF task[t].op = "validate_all"
       THEN /\ task' = [task EXCEPT ![t] = IdleTask]
            /\ UNCHANGED <<lock, bg>>
       ELSE AfterAutoFetch(t, heap, proxies, lock)
    /\ UNCHANGED <<heap, proxies, auto_fetch, now, ad, rl, hist, cap, px, rm, mw, ws>>

\* validate_all() called by a client, up to its gather; with no candidate
\* to validate nothing is awaited: _save_proxies, return
ValidateAllCall(t) ==
    /\ task[t].pc = "idle"
    /\ IF ToValidate(heap, proxies) = {}
       THEN /\ file' = save_proxies(heap, proxies, file)
            /\ task' = task
       ELSE /\ file' = file
            /\ task' = [task EXCEPT ![t] =
                   [IdleTask EXCEPT !.pc = "af_validate", !.op = "validate_all",
                                    !.vpend = ToValidate(heap, proxies)]]
    /\ UNCHANGED <<heap, proxies, lock, auto_fetch, bg, now, ad, rl, hist, cap, px, rm, mw, ws>>

\* auto_fetch_proxies() called by a client, up to the await of
\* fetch_from_free_sources
AutoFetchCall(t) ==
    /\ task[t].pc = "idle"
    /\ task' = [task EXCEPT ![t] =
           [IdleTask EXCEPT !.pc = "af_fetch", !.op = "auto_fetch_proxies"]]
    /\ UNCHANGED <<heap, proxies, lock, file, auto_fetch, bg, now, ad, rl, hist, cap, px, rm, mw, ws>>

\* remove_proxy(proxy_url) called by a client: no lock, no suspension
RemoveProxyCall(t, url) ==
    /\ task[t].pc = "idle"
    /\ proxies' = remove_proxy(heap, proxies, url)
    /\ UNCHANGED <<heap, lock, task, file, auto_fetch, bg, now, ad, rl, hist, cap, px, rm, mw, ws>>

\* initialize: _load_proxies, auto_fetch_proxies when the pool is short,
\* and the validation task is created when the pool has none
Initialize(t) ==
    /\ task[t].pc = "idle"
    /\ Len(heap) + Len(file) <= MaxObjects
    /\ LET st == load_proxies([heap |-> heap, proxies |-> proxies, added |-> 0], file)
       IN /\ heap' = st.heap
          /\ proxies' = st.proxies
          /\ IF auto_fetch /\ Len(st.proxies) < min_size
             THEN /\ task' = [task EXCEPT ![t] =
                         [IdleTask EXCEPT !.pc = "af_fetch", !.op = "initialize"]]
                  /\ bg' = [bg EXCEPT !.shutdown = FALSE]
             ELSE /\ task' = task
                  /\ bg' = StartValidationTask([bg EXCEPT !.shutdown = FALSE])
    /\ UNCHANGED <<lock, file, auto_fetch, now, ad, rl, hist, cap, px, rm, mw, ws>>

\* add_proxy(proxy_url) called by a client, from its lock to its return,
\* where the lock is released with w waiting for it
AddProxy(t, url, lk) ==
    LET st == add_proxy([heap |-> heap, proxies |-> proxies, added |-> 0], url)
    IN /\ heap' = st.heap
       /\ proxies' = st.proxies
       /\ task' = [task EXCEPT ![t] = IdleTask]
       /\ lock' = lk

AddProxyCall(t, url) ==
    /\ task[t].pc = "idle"
    /\ Len(heap) < MaxObjects
    /\ IF LockFree(t)
       THEN AddProxy(t, url, lock)
       ELSE /\ task' = [task EXCEPT ![t] =
                   [IdleTask EXCEPT !.pc = "ap_lock", !.op = "add_proxy",
                                    !.urlq = <<url>>]]
            /\ lock' = LockWait(t)
            /\ UNCHANGED <<heap, proxies>>
    /\ UNCHANGED <<file, auto_fetch, bg, now, ad, rl, hist, cap, px, rm, mw, ws>>

\* add_proxy, waiting for the lock, is woken and takes it
AddProxyAcquire(t) ==
    /\ task[t].pc = "ap_lock"
    /\ LockWoken(t)
    /\ AddProxy(t, Head(task[t].urlq), Released(Tail(lock.waiters)))
    /\ UNCHANGED <<file, auto_fetch, bg, now, ad, rl, hist, cap, px, rm, mw, ws>>

\* _validation_loop: sleep is over; _validate_active_proxies takes its list and
\* _validate_single marks the first entry TESTING
ActiveProxies(h, ps) ==
    SelectSeq(ps, LAMBDA o : h[o].total_requests > 0 /\ h[o].status # FAILED)

BgWake ==
    /\ bg.pc = "sleep"
    /\ LET active_proxies == ActiveProxies(heap, proxies)
       IN /\ active_proxies # << >>
          /\ bg' = [bg EXCEPT !.pc = "wait", !.queue = active_proxies]
          /\ heap' = [heap EXCEPT ![Head(active_proxies)].status = TESTING]
    /\ UNCHANGED <<proxies, lock, task, file, auto_fetch, now, ad, rl, hist, cap, px, rm, mw, ws>>

\* the probe of the current entry has answered; the loop goes on to the next
BgFinish(valid, response_time) ==
    /\ bg.pc = "wait"
    /\ Recorded(heap) < MaxRequests
    /\ LET o == Head(bg.queue)
           rest == Tail(bg.queue)
           h1 == [heap EXCEPT ![o] = validate_result(@, valid, response_time, now)]
       IN IF rest = << >>
          THEN /\ heap' = h1
               /\ bg' = [bg EXCEPT !.pc = "sleep", !.queue = << >>]
          ELSE /\ heap' = [h1 EXCEPT ![Head(rest)].status = TESTING]
               /\ bg' = [bg EXCEPT !.pc = "wait", !.queue = rest]
    /\ UNCHANGED <<proxies, lock, task, file, auto_fetch, now, ad, rl, hist, cap, px, rm, mw, ws>>

Tick ==
    /\ now' \in {h \in Clock : h > now}
    /\ UNCHANGED <<heap, proxies, lock, task, file, auto_fetch, bg, ad, rl, hist, cap, px, rm, mw, ws>>

PoolNext ==
    \/ \E t \in Tasks, q \in Thresholds : GetProxyCall(t, q)
    \/ \E t \in Tasks : GetProxyAcquire(t)
    \/ \E t \in Tasks : ReturnedNone(t)
    \/ \E t \in Tasks, rt \in ResponseTimes : MarkSuccess(t, rt)
    \/ \E t \in Tasks : MarkFailure(t)
    \/ \E t \in Tasks, urls \in FetchLists : AutoFetchFetched(t, urls)
    \/ \E t \in Tasks : AutoFetchAcquire(t)
    \/ \E t \in Tasks : ValidateStart(t)
    \/ \E t \in Tasks, o \in DOMAIN heap, valid \in BOOLEAN, rt \in ResponseTimes :
          ValidateFinish(t, o, valid, rt)
    \/ \E t \in Tasks : ValidateAllDone(t)
    \/ \E t \in Tasks : Initialize(t)
    \/ \E t \in Tasks, url \in Urls : AddProxyCall(t, url)
    \/ \E t \in Tasks : AddProxyAcquire(t)
    \/ \E t \in Tasks : AutoFetchCall(t)

\* every call of the pool that a client can make, and the steps of its calls,
\* for a client that is alone with the validation loop: the loop never takes
\* the lock, so the client never gets the lock after a wait (the only lock it
\* can wait for is the one it holds itself)
ClientNext(t) ==
    \/ \E q \in Thresholds : GetProxyCall(t, q)
    \/ ReturnedNone(t)
    \/ \E rt \in ResponseTimes : MarkSuccess(t, rt)
    \/ MarkFailure(t)
    \/ \E urls \in FetchLists : AutoFetchFetched(t, urls)
    \/ ValidateStart(t)
    \/ \E o \in DOMAIN heap, valid \in BOOLEAN, rt \in ResponseTimes :
          ValidateFinish(t, o, valid, rt)
    \/ ValidateAllDone(t)
    \/ Initialize(t)
    \/ \E url \in Urls : AddProxyCall(t, url)
    \/ AutoFetchCall(t)
    \/ ValidateAllCall(t)
    \/ \E url \in Urls : RemoveProxyCall(t, url)

BgNext ==
    \/ BgWake
    \/ \E valid \in BOOLEAN, rt \in ResponseTimes : BgFinish(valid, rt)

\* two clients that take candidates from the pool, report on them, add
\* candidates and start the pool, while the validation loop sleeps
SpecPool == PoolInit /\ [][PoolNext]_vars

\* one client that makes every call of the pool, with the validation loop
\* running
SpecPoolBg == PoolInit /\ [][ClientNext("t1") \/ BgNext]_vars

\* the pool and its clients over hours of wall-clock time
SpecPoolClock == PoolInit /\ [][PoolNext \/ Tick]_vars

\* A coroutine that can run is run by the event loop, and every awaited probe
\* or fetch answers (each has a timeout): the continuation steps of a task are
\* weakly fair.  New calls by clients are not.
TaskStep(t) ==
    \/ GetProxyAcquire(t)
    \/ \E urls \in FetchLists : AutoFetchFetched(t, urls)
    \/ AutoFetchAcquire(t)
    \/ ValidateStart(t)
    \/ \E o \in DOMAIN heap, valid \in BOOLEAN, rt \in ResponseTimes :
          ValidateFinish(t, o, valid, rt)
    \/ ValidateAllDone(t)
    \/ AddProxyAcquire(t)

FairSpecPool == SpecPool /\ \A t \in Tasks : WF_vars(TaskStep(t))

(***************************************************************************)
(* ProxyPool (proxy_pool.py): properties                                   *)
(***************************************************************************)
Range(seq) == {seq[i] : i \in DOMAIN seq}

\* this step ends a _validate_single of object o (its probe has answered)
ValidationFinished(o) ==
    \/ \E t \in Tasks : o \in task[t].vrun /\ o \notin task'[t].vrun
    \/ bg.pc = "wait" /\ Head(bg.queue) = o /\ bg' # bg

\* this step starts a _validate_single of object o (status = TESTING)
ValidationStarted(o) ==
    \/ \E t \in Tasks : o \notin task[t].vrun /\ o \in task'[t].vrun
    \/ bg' # bg /\ bg'.pc = "wait" /\ Head(bg'.queue) = o

\* this step is the return of a get_proxy call, with object o
ReturnedByGetProxy(o) ==
    \E t \in Tasks :
        task[t].pc # "holding" /\ task'[t].pc = "holding" /\ task'[t].held = o

\* this step belongs to a get_proxy call of task t
GetProxyStep(t) ==
    \/ task[t].pc = "idle" /\ (task'[t].op = "get_proxy" \/ task'[t].pc = "holding")
    \/ task[t].op = "get_proxy" /\ task'[t] # task[t]

Counters(p) == <<p.success_count, p.failure_count, p.total_requests>>

\* C1: the status of a candidate never goes from FAILED to WORKING in a step
\* other than the successful end of a validation of that candidate.
C1_NoSilentReinstatement ==
    [][\A o \in DOMAIN heap :
          (heap[o].status = FAILED /\ heap'[o].status = WORKING)
              => (ValidationFinished(o) /\ heap'[o].success_count > heap[o].success_count)
      ]_vars

\* C2: a get_proxy call that has not returned at once eventually returns to
\* its caller (a candidate or None) and does not hold the pool lock then.
C2_GetProxyReturns ==
    \A t \in Tasks :
        (task[t].op = "get_proxy") ~> (task[t].pc = "holding" /\ lock.holder # t)

\* C7: a failure that brings a candidate to 3 failures, more than its
\* successes, leaves it FAILED; and as long as no validation of a FAILED
\* candidate starts or ends, it stays FAILED and no get_proxy call returns it.
C7_FailedExcludedUntilRevalidated ==
    [][\A o \in DOMAIN heap :
          /\ (heap'[o].failure_count > heap[o].failure_count /\ FailsToFailed(heap'[o]))
                => heap'[o].status = FAILED
          /\ (heap[o].status = FAILED /\ ~ValidationStarted(o) /\ ~ValidationFinished(o))
                => (heap'[o].status = FAILED /\ ~ReturnedByGetProxy(o))
      ]_vars

\* C8: no step of a get_proxy call changes success_count, failure_count or
\* total_requests of any candidate.
C8_GetProxyKeepsCounters ==
    [][\A t \in Tasks :
          GetProxyStep(t) =>
              \A o \in DOMAIN heap : Counters(heap'[o]) = Counters(heap[o])
      ]_vars

\* a get_proxy call has returned a candidate on which outcomes are recorded
C8_Witness ==
    \E t \in Tasks :
        /\ task[t].pc = "holding"
        /\ task[t].held # 0
        /\ heap[task[t].held].total_requests > 0
        /\ heap[task[t].held].failure_count > 0

\* C9: get_proxy(quality_threshold) returns a WORKING candidate of the pool
\* with quality_score >= quality_threshold when its quality filter finds one;
\* it goes on to auto-fetch and to the fallback only when the filter finds
\* none; from the fallback it returns a candidate of the pool that is not
\* FAILED when there is one, and None otherwise.
Qualifying(h, ps, q) ==
    {o \in Range(ps) : h[o].status = WORKING
                        /\ FracAtLeast(h[o].quality_score, q)}

NotFailed(h, ps) == {o \in Range(ps) : h[o].status # FAILED}

ReturnsFromFallback(h, ps, r) ==
    IF NotFailed(h, ps) # {} THEN r \in NotFailed(h, ps) ELSE r = 0

C9_GetProxyResult ==
    [][\A t \in Tasks :
          /\ (task[t].pc \in {"idle", "gp_lock"} /\ task'[t].pc = "holding")
                => LET q == task'[t].thr
                       r == task'[t].held
                   IN IF Qualifying(heap, proxies, q) # {}
                      THEN r \in Qualifying(heap, proxies, q)
                      ELSE ReturnsFromFallback(heap, proxies, r)
          /\ (task[t].pc \in {"idle", "gp_lock"} /\ task'[t].pc = "af_fetch"
                /\ task'[t].op = "get_proxy")
                => Qualifying(heap, proxies, task'[t].thr) = {}
          /\ (task[t].op = "get_proxy" /\ task[t].pc # "gp_lock"
                /\ task'[t].pc = "holding")
                => ReturnsFromFallback(heap', proxies', task'[t].held)
      ]_vars

\* get_proxy(60) has returned a WORKING candidate that meets the threshold
\* while the pool also holds a candidate that does not qualify
C9_Witness ==
    \E t \in Tasks :
        /\ task[t].pc = "holding"
        /\ task[t].held # 0
        /\ task[t].thr = 60
        /\ task[t].held \in Qualifying(heap, proxies, 60)
        /\ Range(proxies) \ Qualifying(heap, proxies, 60) # {}

\* C10: the pool never holds more than max_size candidates.
C10_PoolWithinMaxSize == Len(proxies) <= max_size

\* C17: when a _validate_single of a candidate finishes, the candidate is
\* WORKING or FAILED.
C17_ValidationDecidesStatus ==
    [][\A o \in DOMAIN heap :
          ValidationFinished(o) => heap'[o].status \in {WORKING, FAILED}
      ]_vars

\* ---- candidates that differ in scheme or credentials only ----
\* proxy URLs with the address:port of a member of Urls
SchemeUrls == {"https://a:1", "socks5://a:1", "http://u:p@a:1"}

\* ProxyInfo.proxy: hostname:port of proxy_url (urlparse)
AddressPort(url) ==
    CASE url \in {"http://a:1", "https://a:1", "socks5://a:1", "http://u:p@a:1"}
           -> "a:1"
      [] url = "http://b:2" -> "b:2"

\* clients that add the URLs of Urls and of SchemeUrls, and get candidates
SchemesNext ==
    \/ \E t \in Tasks, url \in Urls \cup SchemeUrls : AddProxyCall(t, url)
    \/ \E t \in Tasks, q \in Thresholds : GetProxyCall(t, q)
    \/ \E t \in Tasks : ReturnedNone(t)

SpecPoolSchemes == PoolInit /\ [][SchemesNext]_vars

\* C11: the pool never holds two candidates with the same address:port
\* (add_proxy rejects a candidate whose address:port the pool already holds,
\* whatever its scheme and credentials).
C11_OneCandidatePerAddress ==
    \A i, j \in DOMAIN proxies :
        i # j => AddressPort(heap[proxies[i]].proxy_url)
                    # AddressPort(heap[proxies[j]].proxy_url)

(***************************************************************************)
(* ProxyPool (anti_detection.py).  ad is the record of its state:          *)
(*   obj      the Proxy objects (quality, response_time, counts)           *)
(*   proxies, active   self.proxies and self.active_proxies                *)
(*   lock, waiters   self._lock: its holder ("none" when unlocked) and the *)
(*            coroutines waiting for it, in the order of their acquire()   *)
(*   cancel   the cancellation of the checker task that stop_checker has   *)
(*            requested and the task has not received yet: "none", "task", *)
(*            or "waiter" when it also cancelled the task's lock waiter    *)
(*   pc, arg  per coroutine: its position and the arguments of its call    *)
(*   results, i, cur   of the check_all_proxies call that holds the lock   *)
(*            (of the checker or of a client): the probe results it        *)
(*            gathered, the entries of zip(self.proxies, results) it is    *)
(*            done with, and the proxy of the release_proxy call it is in  *)
(***************************************************************************)
MaxADRequests == 3     \* outcomes recorded in one run (on all Proxy together)

ADTasks == {"f1", "f2"}
ADProxies == {"p1", "p2"}
\* the response times of a client's request: below 2 s (HIGH) and above 5 s (LOW)
ADResponseTimes == {1, 6}
ADQualities == {"medium", "high"}
ad_max_size == 2

ADNoArg == [proxy |-> "none", success |-> FALSE, response_time |-> 0, quality |-> "none"]

ADInit ==
    /\ ad = [obj |-> [p \in ADProxies |->
                        [quality |-> "medium", response_time |-> 0,
                         success_count |-> 0, fail_count |-> 0]],
             proxies |-> << >>,
             active |-> << >>,
             lock |-> "none",
             waiters |-> << >>,
             cancel |-> "none",
             pc |-> [c \in ADTasks \cup {"checker"} |->
                        IF c = "checker" THEN "off" ELSE "idle"],
             arg |-> [c \in ADTasks |-> ADNoArg],
             results |-> << >>,
             i |-> 0,
             cur |-> "none"]
    /\ heap = << >>
    /\ proxies = << >>
    /\ lock = NoLock
    /\ task = [t \in Tasks |-> IdleTask]
    /\ file = << >>
    /\ auto_fetch = FALSE
    /\ bg = NoValidationTask
    /\ now = 0
    /\ rl = "unused"
    /\ hist = "unused"
    /\ cap = "unused"
    /\ px = "unused"
    /\ rm = "unused"
    /\ mw = "unused"
    /\ ws = "unused"

\* asyncio.Lock.acquire() goes through without suspension only when the
\* lock is unlocked and every waiter is cancelled: a waiter that release()
\* has woken goes first.  The only waiter that is ever cancelled is the
\* checker's.
ADLockFree(a) ==
    /\ a.lock = "none"
    /\ \/ a.waiters = << >>
       \/ a.waiters = <<"checker">> /\ a.cancel = "waiter"

\* c is the waiter that release() has woken, and has not run yet
ADLockWoken(a, c) ==
    /\ a.lock = "none"
    /\ a.waiters # << >>
    /\ Head(a.waiters) = c

\* acquire() suspends: c joins the waiters, at the lock acquisition pcAt
ADLockWait(a, c, pcAt) ==
    [a EXCEPT !.waiters = Append(@, c), !.pc[c] = pcAt]

RECURSIVE ADRecorded(_)
ADRecorded(ps) ==
    IF ps = {} THEN 0
    ELSE LET p == CHOOSE x \in ps : TRUE
         IN ad.obj[p].success_count + ad.obj[p].fail_count + ADRecorded(ps \ {p})

Remove(seq, x) == SelectSeq(seq, LAMBDA y : y # x)
InSeq(seq, x) == \E i \in DOMAIN seq : seq[i] = x

\* Proxy.success_rate as a fraction <<numerator, denominator>>
ADSuccessRate(o) ==
    IF o.success_count + o.fail_count = 0 THEN <<1, 2>>
    ELSE <<o.success_count, o.success_count + o.fail_count>>

\* the sort key (success_rate, -response_time) of a is greater than that of b
ADKeyGreater(a, b) ==
    LET ra == ADSuccessRate(a)
        rb == ADSuccessRate(b)
    IN \/ ra[1] * rb[2] > rb[1] * ra[2]
       \/ ra[1] * rb[2] = rb[1] * ra[2] /\ a.response_time < b.response_time

\* get_proxy: the filter, and the head of the list after the stable sort
ADAvailable(a, quality) ==
    SelectSeq(a.proxies,
              LAMBDA p : /\ \/ a.obj[p].quality = quality
                            \/ quality = "medium" /\ a.obj[p].quality \in {"high", "medium"}
                         /\ ~InSeq(a.active, p))

ADFirstBest(a, av) ==
    av[CHOOSE i \in DOMAIN av :
          /\ \A j \in DOMAIN av : ~ADKeyGreater(a.obj[av[j]], a.obj[av[i]])
          /\ \A j \in 1..(i - 1) : ADKeyGreater(a.obj[av[i]], a.obj[av[j]])]

\* a call returns to its caller c
ADReturn(a, c) == [a EXCEPT !.pc[c] = "idle", !.arg[c] = ADNoArg]

\* add_proxy inside its lock
ADAddProxy(a, c) ==
    LET p == a.arg[c].proxy
    IN IF Len(a.proxies) >= ad_max_size THEN ADReturn(a, c)
       ELSE IF InSeq(a.proxies, p) THEN ADReturn(a, c)
       ELSE ADReturn([a EXCEPT !.proxies = Append(@, p)], c)

\* get_proxy inside its lock: the caller goes on with the proxy, or with None
ADGetProxy(a, c) ==
    LET av == ADAvailable(a, a.arg[c].quality)
    IN IF av = << >> THEN ADReturn(a, c)
       ELSE LET p == ADFirstBest(a, av)
            IN [a EXCEPT !.active = Append(@, p),
                         !.pc[c] = "using",
                         !.arg[c] = [ADNoArg EXCEPT !.proxy = p]]

\* remove_proxy inside its lock
ADRemoveProxy(a, p) ==
    [a EXCEPT !.proxies = Remove(@, p), !.active = Remove(@, p)]

\* release_proxy inside its lock, up to the call of remove_proxy: the new
\* state, and whether remove_proxy is called
ADReleaseProxy(a, p, success, response_time) ==
    LET a1 == [a EXCEPT !.active = Remove(@, p)]
    IN IF success
       THEN [a1 EXCEPT !.obj[p].success_count = @ + 1,
                       !.obj[p].response_time = response_time,
                       !.obj[p].quality = IF response_time < 2 THEN "high"
                                          ELSE IF response_time < 5 THEN "medium"
                                          ELSE "low"]
       ELSE [a1 EXCEPT !.obj[p].fail_count = @ + 1,
                       !.obj[p].quality =
                           IF a.obj[p].fail_count + 1 >= 3 THEN "dead" ELSE @]

ADCallsRemove(a, p, success) == ~success /\ a.obj[p].fail_count + 1 >= 3

\* release_proxy called by client c, from its lock to its return or to the
\* lock of remove_proxy, which it needs while it holds the lock itself
ADClientRelease(a, c) ==
    LET p == a.arg[c].proxy
        a1 == ADReleaseProxy(a, p, a.arg[c].success, a.arg[c].response_time)
    IN IF ADCallsRemove(a, p, a.arg[c].success)
       THEN ADLockWait([a1 EXCEPT !.lock = c], c, "rel_remove_lock")
       ELSE ADReturn([a1 EXCEPT !.lock = "none"], c)

\* check_all_proxies has returned to its caller c: _checker_loop goes to its
\* sleep, a client has its call back
ADCheckAllReturn(a, c) ==
    IF c = "checker" THEN [a EXCEPT !.pc["checker"] = "sleep"] ELSE ADReturn(a, c)

\* check_all_proxies, called by c, inside its lock: an empty pool is done at
\* once (no probe to wait for), otherwise the probes are gathered with the
\* lock held
ADCheckAll(a, c) ==
    IF a.proxies = << >>
    THEN ADCheckAllReturn(a, c)
    ELSE [a EXCEPT !.lock = c, !.pc[c] = "checking"]

\* check_all_proxies: the loop over zip(self.proxies, results) from entry
\* i + 1 on, up to the end of the loop (and of the outer lock) or to a lock
\* that release_proxy or remove_proxy has to wait for
RECURSIVE ADSweep(_, _)
ADSweep(a, c) ==
    IF a.i >= Len(a.results) \/ a.i >= Len(a.proxies)
    THEN ADCheckAllReturn([a EXCEPT !.lock = "none", !.results = << >>,
                                    !.i = 0, !.cur = "none"], c)
    ELSE IF ~ADLockFree(a)
    THEN ADLockWait(a, c, "check_release_lock")
    ELSE LET p == a.proxies[a.i + 1]
             r == a.results[a.i + 1]
             a1 == ADReleaseProxy(a, p, r.success, r.response_time)
         IN IF ADCallsRemove(a, p, r.success)
            THEN ADLockWait([a1 EXCEPT !.lock = c, !.cur = p],
                            c, "check_remove_lock")
            ELSE ADSweep([a1 EXCEPT !.i = @ + 1], c)

ADPoolUnchanged == UNCHANGED <<heap, proxies, lock, task, file, auto_fetch, bg, now, rl, hist, cap, px, rm, mw, ws>>

\* coroutine c, at the lock acquisition pcAt with the lock free, runs to its
\* next suspension or to its return
ADRun(a, c, pcAt) ==
    CASE pcAt = "add_lock" -> ADAddProxy(a, c)
      [] pcAt = "rem_lock" -> ADReturn(ADRemoveProxy(a, a.arg[c].proxy), c)
      [] pcAt = "get_lock" -> ADGetProxy(a, c)
      [] pcAt = "rel_lock" -> ADClientRelease(a, c)
      [] pcAt = "rel_remove_lock" ->
             ADReturn(ADRemoveProxy(a, a.arg[c].proxy), c)
      [] pcAt = "check_lock" -> ADCheckAll(a, c)
      [] pcAt = "check_release_lock" -> ADSweep(a, c)
      [] pcAt = "check_remove_lock" ->
             ADSweep([ADRemoveProxy(a, a.cur) EXCEPT !.i = @ + 1], c)

\* ---- calls by fetch tasks ----
\* a call with arguments argv whose first await is the lock acquisition pcAt
ADCall(c, pcAt, argv) ==
    /\ LET a == [ad EXCEPT !.arg[c] = argv]
       IN IF ADLockFree(a)
          THEN ad' = ADRun(a, c, pcAt)
          ELSE ad' = ADLockWait(a, c, pcAt)
    /\ ADPoolUnchanged

ADAddProxyCall(c, p) ==
    /\ ad.pc[c] = "idle"
    /\ ADCall(c, "add_lock", [ADNoArg EXCEPT !.proxy = p])

\* remove_proxy(proxy) called by a client, for any proxy, held or not
ADRemoveProxyCall(c, p) ==
    /\ ad.pc[c] = "idle"
    /\ ADCall(c, "rem_lock", [ADNoArg EXCEPT !.proxy = p])

ADGetProxyCall(c, quality) ==
    /\ ad.pc[c] = "idle"
    /\ ADCall(c, "get_lock", [ADNoArg EXCEPT !.quality = quality])

ADReleaseProxyCall(c, success, response_time) ==
    /\ ad.pc[c] = "using"
    /\ ADRecorded(ADProxies) < MaxADRequests
    /\ ADCall(c, "rel_lock",
              [ad.arg[c] EXCEPT !.success = success, !.response_time = response_time])

\* check_all_proxies() called by a client
ADCheckAllCall(c) ==
    /\ ad.pc[c] = "idle"
    /\ ADCall(c, "check_lock", ADNoArg)

\* a coroutine waiting for the lock is woken, takes it and runs to its next
\* suspension; a cancelled checker does not
ADAcquire(c) ==
    /\ ad.pc[c] \in {"add_lock", "rem_lock", "get_lock", "rel_lock",
                     "rel_remove_lock", "check_lock", "check_release_lock",
                     "check_remove_lock"}
    /\ ADLockWoken(ad, c)
    /\ c = "checker" => ad.cancel = "none"
    /\ ad' = ADRun([ad EXCEPT !.waiters = Tail(@)], c, ad.pc[c])
    /\ ADPoolUnchanged

\* ---- the checker ----
\* start_checker: _running = True, create_task(_checker_loop())
ADStartChecker ==
    /\ ad.pc["checker"] = "off"
    /\ ad' = [ad EXCEPT !.pc["checker"] = "start"]
    /\ ADPoolUnchanged

\* stop_checker, up to its await of the task: _running = False and the task
\* is cancelled.  cancel() cancels the future the task waits for: its lock
\* waiter, unless release() has woken it already.  A stop_checker with no
\* task, or with one that has ended or is cancelled already, changes nothing.
ADStopChecker ==
    /\ ad.pc["checker"] # "off"
    /\ ad.cancel = "none"
    /\ ad' = [ad EXCEPT !.cancel =
                  IF InSeq(ad.waiters, "checker") /\ ~ADLockWoken(ad, "checker")
                  THEN "waiter" ELSE "task"]
    /\ ADPoolUnchanged

\* the cancelled checker task runs: CancelledError is raised at the await it
\* is in.  Its lock waiter leaves the waiters, the lock of check_all_proxies,
\* if held, is released on the way out, and _checker_loop leaves at its
\* "except CancelledError: break"; stop_checker then returns.
ADCheckerCancelled ==
    /\ ad.cancel # "none"
    /\ ad' = [ad EXCEPT !.pc["checker"] = "off",
                        !.lock = IF @ = "checker" THEN "none" ELSE @,
                        !.waiters = Remove(@, "checker"),
                        !.cancel = "none",
                        !.results = IF ad.lock = "checker" THEN << >> ELSE @,
                        !.i = IF ad.lock = "checker" THEN 0 ELSE @,
                        !.cur = IF ad.lock = "checker" THEN "none" ELSE @]
    /\ ADPoolUnchanged

\* _checker_loop: the next round (the task starts, or its sleep is over)
ADCheckerRound ==
    /\ ad.pc["checker"] \in {"start", "sleep"}
    /\ ad.cancel = "none"
    /\ IF ADLockFree(ad)
       THEN ad' = ADCheckAll(ad, "checker")
       ELSE ad' = ADLockWait(ad, "checker", "check_lock")
    /\ ADPoolUnchanged

\* what check_proxy returns.  It calls client.get(check_url, proxies=...) on
\* an httpx.AsyncClient, whose get takes no proxies argument: the call raises
\* TypeError before anything is sent, "except Exception" catches it, and the
\* probe returns (False, elapsed) with next to no time elapsed.
ADProbeOutcomes == {[success |-> FALSE, response_time |-> 0]}

\* check_all_proxies: gather has the result of every check_proxy
ADCheckerProbed(results) ==
    /\ ad.pc["checker"] = "checking"
    /\ ad.cancel = "none"
    /\ ad' = ADSweep([ad EXCEPT !.results = results, !.i = 0], "checker")
    /\ ADPoolUnchanged

\* the same in a check_all_proxies call of client c
ADClientProbed(c, results) ==
    /\ ad.pc[c] = "checking"
    /\ ad' = ADSweep([ad EXCEPT !.results = results, !.i = 0], c)
    /\ ADPoolUnchanged

\* every call of the pool that client c can make, and the steps of its calls
ADClientNext(c) ==
    \/ \E p \in ADProxies : ADAddProxyCall(c, p)
    \/ \E p \in ADProxies : ADRemoveProxyCall(c, p)
    \/ \E q \in ADQualities : ADGetProxyCall(c, q)
    \/ \E ok \in BOOLEAN, rt \in ADResponseTimes : ADReleaseProxyCall(c, ok, rt)
    \/ ADCheckAllCall(c)
    \/ ADAcquire(c)
    \/ \E results \in [1..Len(ad.proxies) -> ADProbeOutcomes] :
          ADClientProbed(c, results)

\* the checker task, and the calls that start and stop it
ADCheckerNext ==
    \/ ADAcquire("checker")
    \/ ADStartChecker
    \/ ADStopChecker
    \/ ADCheckerCancelled
    \/ ADCheckerRound
    \/ \E results \in [1..Len(ad.proxies) -> ADProbeOutcomes] : ADCheckerProbed(results)

ADNext ==
    \/ \E c \in ADTasks : ADClientNext(c)
    \/ ADCheckerNext

SpecAD == ADInit /\ [][ADNext]_vars

\* a coroutine that can run is run, and every probe answers within
\* check_timeout: lock hand-over, the rounds of the checker and the end of
\* its gather are weakly fair
FairSpecAD ==
    /\ SpecAD
    /\ \A c \in ADTasks \cup {"checker"} : WF_vars(ADAcquire(c))
    /\ WF_vars(ADCheckerRound)
    /\ WF_vars(ADCheckerCancelled)
    /\ WF_vars(\E results \in [1..Len(ad.proxies) -> ADProbeOutcomes] :
                    ADCheckerProbed(results))
    /\ \A c \in ADTasks :
          WF_vars(\E results \in [1..Len(ad.proxies) -> ADProbeOutcomes] :
                      ADClientProbed(c, results))

\* C3: a sweep of the checker that waits for its probes with the pool lock
\* held finishes, unless stop_checker cancels it: the checker gets to its
\* sleep and the lock is released.
C3_SweepFinishes ==
    (ad.pc["checker"] = "checking")
        ~> (\/ ad.pc["checker"] = "sleep" /\ ad.lock = "none"
            \/ ad.pc["checker"] = "off")

\* C16: once the probes of a sweep have answered, an outcome is recorded for
\* the first of them (the sweep goes on past it, or ends with every outcome
\* recorded), unless stop_checker cancels the sweep.
C16_ProbeOutcomeRecorded ==
    (ad.pc["checker"] = "check_release_lock")
        ~> (ad.i > 0 \/ ad.results = << >> \/ ad.pc["checker"] = "off")

(***************************************************************************)
(* RateLimiter (scraper.py).  Time is counted in ticks and tokens in       *)
(* units of 1/TokenUnit token, with TokenUnit ticks to the refill period   *)
(* 1/rate_per_second: in one tick the bucket gains one unit, and the wait  *)
(* (1 - tokens) / rate_per_second is TokenUnit - tokens ticks.  time.time()*)
(* is taken to be monotonic and a sleep to end when its time is up.        *)
(* rl is the record of the limiter's state:                                *)
(*   burst, tokens, last_update, lock   the fields of the object           *)
(*   waiters  the callers that wait for the lock, in the order of arrival  *)
(*   cancel   per caller, the cancellation of its task that it has not      *)
(*            received yet: "none", "waiter" when the cancellation found it *)
(*            waiting for the lock and not woken (the future it waits for   *)
(*            is then cancelled), "task" otherwise                          *)
(*   time     the clock                                                    *)
(*   pc, wake per caller its position in acquire, and the end of the sleep *)
(*   calls    the number of acquire calls made                             *)
(*   returns  for every acquire that returned, the time of its return and  *)
(*            the time at which tokens was last set to 0 before it         *)
(*   emptied_at   the time at which tokens was last set to 0               *)
(***************************************************************************)
TokenUnit == 2        \* ticks in one refill period 1/rate_per_second
MaxTime == 5          \* the clock stops here
MaxAcquires == 4      \* acquire calls in one run

RLCallers == {"c1", "c2", "c3"}
RLBursts == {1, 2}

RLInit ==
    /\ \E burst \in RLBursts :
          rl = [burst |-> burst,
                tokens |-> burst * TokenUnit,
                last_update |-> 0,
                lock |-> "none",
                waiters |-> << >>,
                cancel |-> [c \in RLCallers |-> "none"],
                time |-> 0,
                pc |-> [c \in RLCallers |-> "idle"],
                wake |-> 0,
                calls |-> 0,
                returns |-> << >>,
                emptied_at |-> None]
    /\ heap = << >>
    /\ proxies = << >>
    /\ lock = NoLock
    /\ task = [t \in Tasks |-> IdleTask]
    /\ file = << >>
    /\ auto_fetch = FALSE
    /\ bg = NoValidationTask
    /\ now = 0
    /\ ad = "unused"
    /\ hist = "unused"
    /\ cap = "unused"
    /\ px = "unused"
    /\ rm = "unused"
    /\ mw = "unused"
    /\ ws = "unused"

\* self.tokens + elapsed * self.rate_per_second, without min(self.burst, ...)
RLRefillUncapped(tokens, elapsed, burst) == tokens + elapsed

\* min(self.burst, self.tokens + elapsed * self.rate_per_second)
RLRefill(tokens, elapsed, burst) == Min(burst * TokenUnit, tokens + elapsed)

\* acquire returns to its caller c
RLReturn(r, c) ==
    [r EXCEPT !.lock = "none",
              !.pc[c] = "idle",
              !.returns = Append(@, [at |-> r.time, emptied_before |-> rl.emptied_at])]

\* acquire inside its lock, up to its return or to its sleep
RLAcquireBody(r, c) ==
    LET elapsed == r.time - r.last_update
        tokens == RLRefill(r.tokens, elapsed, r.burst)
        r1 == [r EXCEPT !.tokens = tokens, !.last_update = r.time]
    IN IF tokens < TokenUnit
       THEN [r1 EXCEPT !.lock = c, !.pc[c] = "sleeping",
                       !.wake = r.time + (TokenUnit - tokens)]
       ELSE RLReturn([r1 EXCEPT !.tokens = tokens - TokenUnit,
                                !.emptied_at = IF tokens - TokenUnit = 0
                                               THEN r.time ELSE @], c)

RLOthersUnchanged == UNCHANGED <<heap, proxies, lock, task, file, auto_fetch, bg, now, ad, hist, cap, px, rm, mw, ws>>

\* asyncio.Lock: the waiter that release (or a cancelled waiter that leaves
\* an unlocked lock) has woken: the first of the waiters, unless its future
\* was cancelled before
RLWoken(r, c) ==
    /\ r.lock = "none"
    /\ r.waiters # << >>
    /\ Head(r.waiters) = c
    /\ r.cancel[c] # "waiter"

\* asyncio.Lock.acquire goes on without waiting when the lock is unlocked and
\* every waiter, if any, has a cancelled future
RLLockFree(r) ==
    /\ r.lock = "none"
    /\ \A i \in 1..Len(r.waiters) : r.cancel[r.waiters[i]] = "waiter"

\* acquire is called: it goes on when the lock is free for it, or joins the
\* waiters (asyncio.Lock serves them in order)
RLAcquireCall(c) ==
    /\ rl.pc[c] = "idle"
    /\ rl.calls < MaxAcquires
    /\ LET r == [rl EXCEPT !.calls = @ + 1]
       IN IF RLLockFree(rl)
          THEN rl' = RLAcquireBody(r, c)
          ELSE rl' = [r EXCEPT !.pc[c] = "wait_lock", !.waiters = Append(@, c)]
    /\ RLOthersUnchanged

\* the waiter that was woken takes the lock
RLAcquireLock(c) ==
    /\ rl.pc[c] = "wait_lock"
    /\ RLWoken(rl, c)
    /\ rl.cancel[c] = "none"
    /\ rl' = RLAcquireBody([rl EXCEPT !.waiters = Tail(@)], c)
    /\ RLOthersUnchanged

\* the sleep is over: self.tokens = 0, the lock is released, acquire returns
RLWake(c) ==
    /\ rl.pc[c] = "sleeping"
    /\ rl.time >= rl.wake
    /\ rl.cancel[c] = "none"
    /\ rl' = RLReturn([rl EXCEPT !.tokens = 0, !.emptied_at = rl.time], c)
    /\ RLOthersUnchanged

\* the clock advances, unless a sleep is to end now
RLTick ==
    /\ rl.time < MaxTime
    /\ \A c \in RLCallers : rl.pc[c] = "sleeping" => rl.time < rl.wake
    /\ rl' = [rl EXCEPT !.time = @ + 1]
    /\ RLOthersUnchanged

RLNext ==
    \/ \E c \in RLCallers : RLAcquireCall(c)
    \/ \E c \in RLCallers : RLAcquireLock(c)
    \/ \E c \in RLCallers : RLWake(c)
    \/ RLTick

SpecRL == RLInit /\ [][RLNext]_vars

\* C4: with burst 1, the returns of any two acquire calls are at least one
\* refill period (1/rate_per_second) apart.
C4_AcquiresSpaced ==
    rl.burst = 1 =>
        \A i, j \in DOMAIN rl.returns :
            i < j => rl.returns[j].at - rl.returns[i].at >= TokenUnit

\* C5: no acquire returns earlier than one refill period after the time at
\* which the bucket was last emptied (tokens set to 0) before that return.
C5_NoReturnBeforeRefill ==
    \A i \in DOMAIN rl.returns :
        rl.returns[i].emptied_before # None =>
            rl.returns[i].at >= rl.returns[i].emptied_before + TokenUnit

\* C6: the token count is within [0, burst] in every state.
C6_TokensWithinBurst ==
    0 <= rl.tokens /\ rl.tokens <= rl.burst * TokenUnit

\* a refill that ran into the cap: with burst 1, a second acquire more than
\* one refill period after the first, which took the one token there is
C6_Witness ==
    /\ rl.burst = 1
    /\ Len(rl.returns) = 2
    /\ rl.returns[2].at - rl.returns[1].at > TokenUnit
    /\ rl.tokens = 0
    /\ rl.last_update = rl.time

(***************************************************************************)
(* One candidate taken alone.  heap holds one ProxyInfo of proxy_pool.py,  *)
(* proxies the pool it is in, and its holder and the validator record      *)
(* outcomes on it while the clock moves;                                   *)
(*   hist = [before, run, scheduled, testing, finished, validating]: the   *)
(*   outcomes recorded on it before and in this run ("s" or "f", oldest    *)
(*   first); the _validate_single coroutines of validate_all calls that    *)
(*   have not started yet, that wait for their probe, and that have ended  *)
(*   while their validate_all has not resumed from its gather; and whether *)
(*   the _validate_single of the validation loop waits for its probe.      *)
(* px holds one ProxyInfo of proxy.py and the list of its ProxyPool:       *)
(*   px = [obj, proxies, run, validating, probed, file]: the object, the   *)
(*   list (<<1>> or << >>), the number of outcomes recorded in this run,   *)
(*   the validate_proxies calls that wait for the probe of the object, the *)
(*   validate_proxies calls whose gather has nothing left to record on the *)
(*   object (its probe has answered, or the object they probe has been     *)
(*   replaced) and has not returned yet, and the file of save_to_file      *)
(*   (<< >> when absent, else <<items>>).                                  *)
(* A run is of one of the two pools: of the pool of proxy_pool.py, set up  *)
(* with auto_fetch, or of the pool of proxy.py, which has no auto_fetch.   *)
(***************************************************************************)
PastSuccesses == 11    \* outcomes of the seasoned candidate before the run
PastFailures == 8

InfoResponseTimes == {0, RTUnit, 2 * RTUnit}     \* 0 s, 1 s, 2 s

RECURSIVE Repeat(_, _)
Repeat(x, n) == IF n = 0 THEN << >> ELSE <<x>> \o Repeat(x, n - 1)

\* the candidate after the outcomes of seq, each recorded at clock 0 with a
\* response time of 1 s
RECURSIVE Replay(_, _)
Replay(p, seq) ==
    IF seq = << >> THEN p
    ELSE Replay(IF Head(seq) = "s" THEN record_success(p, RTUnit, 0)
                ELSE record_failure(p, 0),
                Tail(seq))

\* the histories the run starts from: a candidate just added, and one that
\* has served: PastSuccesses successes, then PastFailures failures
InfoPasts == {<< >>, Repeat("s", PastSuccesses) \o Repeat("f", PastFailures)}

\* ---- proxy.py ----
PxResponseTimes == {0, 100}     \* milliseconds

\* ProxyInfo(proxy=..., protocol=...): the dataclass defaults
PxNewProxyInfo ==
    [score |-> 100, success_count |-> 0, fail_count |-> 0, avg_response_time |-> 0,
     last_check_time |-> None]

\* is_valid at clock t: checked within the hour, if ever, and success_rate
\* above 0.5
PxObjIsValid(o, t) ==
    /\ o.last_check_time # None => t - o.last_check_time <= 1
    /\ 2 * o.success_count > o.success_count + o.fail_count

\* _validate_proxy(proxy), once the probe has answered
PxValidateProxy(o, ok, response_time, t) ==
    IF ok THEN [o EXCEPT !.success_count = @ + 1, !.last_check_time = t,
                         !.avg_response_time = response_time]
    ELSE [o EXCEPT !.fail_count = @ + 1]

\* load_from_file: the ProxyInfo made from an item of the file
PxFromItem(item) ==
    [score |-> item.score, success_count |-> item.success_count,
     fail_count |-> item.fail_count, avg_response_time |-> 0,
     last_check_time |-> item.last_check_time]

\* success_rate < 0.2
PxLowSuccessRate(o) ==
    IF o.success_count + o.fail_count = 0 THEN TRUE
    ELSE 5 * o.success_count < o.success_count + o.fail_count

\* mark_success(proxy, response_time)
PxRecordSuccess(o, response_time) ==
    [o EXCEPT !.success_count = @ + 1,
              !.avg_response_time =
                  IF response_time > 0
                  THEN IF @ = 0 THEN response_time
                       ELSE (@ * 7 + response_time * 3) \div 10
                  ELSE @,
              !.score = Min(100, @ + 1)]

\* mark_failure(proxy): the object, before the removal test
PxRecordFailure(o) ==
    [o EXCEPT !.fail_count = @ + 1, !.score = Max(0, @ - 5)]

PxRemoves(o) == PxLowSuccessRate(o) /\ o.success_count + o.fail_count > 10

\* validate_all or validate_proxies calls that are in their gather at a time
MaxCalls == 2

InfoInit ==
    /\ \E past \in InfoPasts :
          /\ heap = <<Replay(NewProxyInfo("http://a:1"), past)>>
          /\ hist = [before |-> past, run |-> << >>, scheduled |-> 0,
                     testing |-> 0, finished |-> 0, validating |-> FALSE]
    /\ proxies = <<1>>
    /\ px = [obj |-> PxNewProxyInfo, proxies |-> <<1>>, run |-> 0,
             validating |-> 0, probed |-> 0, file |-> << >>]
    /\ lock = NoLock
    /\ task = [t \in Tasks |-> IdleTask]
    /\ file = << >>
    /\ auto_fetch \in BOOLEAN
    /\ bg = NoValidationTask
    /\ now = 0
    /\ ad = "unused"
    /\ rl = "unused"
    /\ cap = "unused"
    /\ rm = "unused"
    /\ mw = "unused"
    /\ ws = "unused"

\* outcomes recorded so far in this run
InfoRecorded == Len(hist.run) + px.run

InfoOthersUnchanged ==
    UNCHANGED <<lock, task, auto_fetch, bg, now, ad, rl, cap, rm, mw, ws>>

\* mark_success(proxy_info, response_time) by the holder of the candidate
InfoMarkSuccess(response_time) ==
    /\ InfoRecorded < MaxRequests
    /\ heap' = [heap EXCEPT ![1] = record_success(@, response_time, now)]
    /\ hist' = [hist EXCEPT !.run = Append(@, "s")]
    /\ UNCHANGED <<proxies, px, file>>
    /\ InfoOthersUnchanged

\* mark_failure(proxy_info) by the holder of the candidate
InfoMarkFailure ==
    /\ InfoRecorded < MaxRequests
    /\ LET st == mark_failure(heap, proxies, 1, now)
       IN /\ heap' = st.heap
          /\ proxies' = st.proxies
    /\ hist' = [hist EXCEPT !.run = Append(@, "f")]
    /\ UNCHANGED <<px, file>>
    /\ InfoOthersUnchanged

\* validate_all, up to its gather: it makes a _validate_single coroutine for
\* every candidate of the pool that is not FAILED, and the event loop starts
\* the coroutine after the callbacks that are already queued; with no
\* coroutine made nothing is awaited: _save_proxies, return
InfoValidateAll ==
    /\ hist.scheduled + hist.testing + hist.finished < MaxCalls
    /\ IF ToValidate(heap, proxies) = {}
       THEN /\ file' = save_proxies(heap, proxies, file)
            /\ hist' = hist
       ELSE /\ file' = file
            /\ hist' = [hist EXCEPT !.scheduled = @ + 1]
    /\ UNCHANGED <<heap, proxies, px>>
    /\ InfoOthersUnchanged

\* _validate_single(proxy_info), up to the await of the probe: the status is
\* set to TESTING whatever it is by now
InfoValidateStart ==
    /\ hist.scheduled > 0
    /\ heap' = [heap EXCEPT ![1].status = TESTING]
    /\ hist' = [hist EXCEPT !.scheduled = @ - 1, !.testing = @ + 1]
    /\ UNCHANGED <<proxies, px, file>>
    /\ InfoOthersUnchanged

\* _validate_active_proxies with the candidate first in its list: the filter
\* and the first half of _validate_single run without a suspension
InfoValidateActive ==
    /\ ~hist.validating
    /\ ActiveProxies(heap, proxies) # << >>
    /\ heap' = [heap EXCEPT ![1].status = TESTING]
    /\ hist' = [hist EXCEPT !.validating = TRUE]
    /\ UNCHANGED <<proxies, px, file>>
    /\ InfoOthersUnchanged

\* _validate_single(proxy_info): the probe has answered, in a coroutine of
\* validate_all (in_loop = FALSE) or in the validation loop
InfoValidateFinish(in_loop, valid, response_time) ==
    /\ IF in_loop THEN hist.validating ELSE hist.testing > 0
    /\ InfoRecorded < MaxRequests
    /\ heap' = [heap EXCEPT ![1] = validate_result(@, valid, response_time, now)]
    /\ hist' = [hist EXCEPT !.validating = IF in_loop THEN FALSE ELSE @,
                            !.testing = IF in_loop THEN @ ELSE @ - 1,
                            !.finished = IF in_loop THEN @ ELSE @ + 1,
                            !.run = Append(@, IF valid THEN "s" ELSE "f")]
    /\ UNCHANGED <<proxies, px, file>>
    /\ InfoOthersUnchanged

\* validate_all after its gather: _save_proxies, return
InfoValidateAllDone ==
    /\ hist.finished > 0
    /\ file' = save_proxies(heap, proxies, file)
    /\ hist' = [hist EXCEPT !.finished = @ - 1]
    /\ UNCHANGED <<heap, proxies, px>>
    /\ InfoOthersUnchanged

\* proxy.py: mark_success(proxy, response_time)
PxMarkSuccess(response_time) ==
    /\ InfoRecorded < MaxRequests
    /\ px' = [px EXCEPT !.obj = PxRecordSuccess(@, response_time), !.run = @ + 1]
    /\ UNCHANGED <<heap, proxies, hist, file>>
    /\ InfoOthersUnchanged

\* proxy.py: mark_failure(proxy)
PxMarkFailure ==
    /\ InfoRecorded < MaxRequests
    /\ LET o == PxRecordFailure(px.obj)
       IN px' = [px EXCEPT !.obj = o,
                           !.proxies = IF PxRemoves(o) THEN << >> ELSE @,
                           !.run = @ + 1]
    /\ UNCHANGED <<heap, proxies, hist, file>>
    /\ InfoOthersUnchanged

\* proxy.py: fetch_proxies(), at its end: self.proxies becomes the list
\* fetched, of new objects (none without api_url or when the API fails).  A
\* validate_proxies that awaits its probe goes on with an object that is no
\* longer in the list: when the list is empty the object is the same as
\* before and the probe is still recorded on it.
PxReplaceList(x, o, present) ==
    [x EXCEPT !.obj = IF present THEN o ELSE @,
              !.proxies = IF present THEN <<1>> ELSE << >>,
              !.validating = IF present THEN 0 ELSE @,
              !.probed = IF present THEN @ + x.validating ELSE @]

PxFetchProxies(fetched) ==
    /\ px' = PxReplaceList(px, PxNewProxyInfo, fetched)
    /\ px' # px
    /\ UNCHANGED <<heap, proxies, hist, file>>
    /\ InfoOthersUnchanged

\* proxy.py: validate_proxies(), up to its gather; with an empty list
\* nothing is awaited and the list stays empty
PxValidateProxies ==
    /\ px.proxies # << >>
    /\ px.validating + px.probed < MaxCalls
    /\ px' = [px EXCEPT !.validating = @ + 1]
    /\ UNCHANGED <<heap, proxies, hist, file>>
    /\ InfoOthersUnchanged

\* proxy.py: initialize(): fetch_proxies, then validate_proxies up to its
\* gather
PxInitialize(fetched) ==
    /\ LET x == PxReplaceList(px, PxNewProxyInfo, fetched)
       IN /\ fetched => x.validating + x.probed < MaxCalls
          /\ px' = [x EXCEPT !.validating = IF fetched THEN @ + 1 ELSE @]
    /\ px' # px
    /\ UNCHANGED <<heap, proxies, hist, file>>
    /\ InfoOthersUnchanged

\* proxy.py: the probe of _validate_proxy has answered
PxProbed(ok, response_time) ==
    /\ px.validating > 0
    /\ InfoRecorded < MaxRequests
    /\ px' = [px EXCEPT !.obj = PxValidateProxy(@, ok, response_time, now),
                        !.run = @ + 1,
                        !.validating = @ - 1, !.probed = @ + 1]
    /\ UNCHANGED <<heap, proxies, hist, file>>
    /\ InfoOthersUnchanged

\* proxy.py: validate_proxies() after its gather: the list keeps the valid
PxValidateDone ==
    /\ px.probed > 0
    /\ px' = [px EXCEPT !.proxies = IF PxObjIsValid(px.obj, now) THEN @ ELSE << >>,
                        !.probed = @ - 1]
    /\ UNCHANGED <<heap, proxies, hist, file>>
    /\ InfoOthersUnchanged

\* proxy.py: save_to_file()
PxSaveToFile ==
    /\ px' = [px EXCEPT !.file = <<[i \in DOMAIN px.proxies |-> px.obj]>>]
    /\ px' # px
    /\ UNCHANGED <<heap, proxies, hist, file>>
    /\ InfoOthersUnchanged

\* proxy.py: load_from_file(): nothing changes when the file is absent
PxLoadFromFile ==
    /\ px.file # << >>
    /\ LET items == px.file[1]
       IN px' = PxReplaceList(px, IF items = << >> THEN px.obj
                                  ELSE PxFromItem(items[1]),
                              items # << >>)
    /\ px' # px
    /\ UNCHANGED <<heap, proxies, hist, file>>
    /\ InfoOthersUnchanged

InfoNext ==
    \/ auto_fetch /\ \E rt \in InfoResponseTimes : InfoMarkSuccess(rt)
    \/ auto_fetch /\ InfoMarkFailure
    \/ auto_fetch /\ InfoValidateAll
    \/ auto_fetch /\ InfoValidateStart
    \/ auto_fetch /\ InfoValidateActive
    \/ auto_fetch /\ \E in_loop, valid \in BOOLEAN, rt \in InfoResponseTimes :
                         InfoValidateFinish(in_loop, valid, rt)
    \/ auto_fetch /\ InfoValidateAllDone
    \/ ~auto_fetch /\ \E rt \in PxResponseTimes : PxMarkSuccess(rt)
    \/ ~auto_fetch /\ PxMarkFailure
    \/ ~auto_fetch /\ \E fetched \in BOOLEAN : PxFetchProxies(fetched)
    \/ ~auto_fetch /\ PxValidateProxies
    \/ ~auto_fetch /\ \E fetched \in BOOLEAN : PxInitialize(fetched)
    \/ ~auto_fetch /\ \E ok \in BOOLEAN, rt \in PxResponseTimes : PxProbed(ok, rt)
    \/ ~auto_fetch /\ PxValidateDone
    \/ ~auto_fetch /\ PxSaveToFile
    \/ ~auto_fetch /\ PxLoadFromFile
    \/ Tick

SpecInfo == InfoInit /\ [][InfoNext]_vars

\* the number of failures at the end of seq with no success after them
RECURSIVE TrailingFailures(_)
TrailingFailures(seq) ==
    IF seq = << >> \/ seq[Len(seq)] # "f" THEN 0
    ELSE 1 + TrailingFailures(SubSeq(seq, 1, Len(seq) - 1))

FailedThreshold == 3

\* C12: a recorded failure moves the candidate to FAILED only when it
\* completes a run of FailedThreshold failures with no success between them.
C12_FailedAfterConsecutiveFailures ==
    [][(heap[1].status # FAILED /\ heap'[1].status = FAILED)
          => TrailingFailures(hist'.before \o hist'.run) >= FailedThreshold
      ]_vars

\* C13: a recorded failure removes the candidate from the pool only when its
\* failure_count has reached the ceiling and is greater than its success_count.
C13_RemovedOnlyWhenMostlyFailing ==
    [][(proxies = <<1>> /\ proxies' = << >>)
          => /\ heap'[1].failure_count >= RemoveThreshold
             /\ heap'[1].failure_count > heap'[1].success_count
      ]_vars

\* C14: the stored quality_score of every candidate is the score that
\* update_quality_score computes from its counters and timestamps.
C14_ScoreIsFormula ==
    \A o \in DOMAIN heap :
        heap[o].quality_score = update_quality_score(heap[o], now).quality_score

\* C15: the quality score of a candidate stays within [0, 100]: quality_score
\* of proxy_pool.py and score of proxy.py.
C15_ScoreWithinRange ==
    /\ \A o \in DOMAIN heap :
          /\ FracAtLeast(heap[o].quality_score, 0)
          /\ heap[o].quality_score.num <= 100 * heap[o].quality_score.den
    /\ 0 <= px.obj.score /\ px.obj.score <= 100

\* both ends are met after recorded outcomes: a full score after a success
\* with response time 0, a score that a clamp holds at 0 or above after a
\* slow success long ago, and proxy.py's score held at 100 after a success
C15_Witness ==
    \/ /\ hist.run # << >>
       /\ \/ heap[1].quality_score = Frac(100, 1)
          \/ /\ heap[1].avg_response_time > RTUnit
             /\ heap[1].last_success_time # None
             /\ now - heap[1].last_success_time > 20
    \/ /\ px.obj.success_count > 0
       /\ px.obj.fail_count > 0
       /\ px.obj.score = 100

\* ---------------------------------------------------------------------------
\* The captcha cascades: HybridCaptchaSolver.solve of
\* aicrm/middleware/captcha_solver.py ("hybrid"), CaptchaSolver.solve of
\* aicrm_system/backend/app/services/captcha_solver.py ("service") and
\* HybridSolver.solve of aicrm/middleware/captcha.py ("legacy").
\* A strategy answers "success" or "failure" when invoked; it raises when it
\* is called with keyword arguments that its signature does not take.
\* ---------------------------------------------------------------------------

TEXT_IMAGE == "text_image"
RECAPTCHA_V2 == "recaptcha_v2"
CaptchaTypes == {TEXT_IMAGE, RECAPTCHA_V2}

HybridSolvers == {"tesseract", "ddddocr", "easycaptcha", "2captcha"}
ServiceSolvers == {"ocr", "ddddocr", "2captcha", "anticaptcha"}
LegacySolvers == {"tesseract", "2captcha"}
CapSolvers == HybridSolvers \cup ServiceSolvers

\* no solver named, and what solve holds before it has returned
NoSolver == "none"
NoResult == [success |-> FALSE, by |-> NoSolver, solver |-> NoSolver]

\* the keyword arguments a caller passes on to solve
CapKwargs == {{}, {"length"}, {"site_key"}}
\* TesseractSolver.solve(image, whitelist=None, length=None)
TesseractKeywords == {"whitelist", "length"}

\* every call of solve the model goes through: the implementation, the
\* solvers that are installed and available, what each answers, the captcha
\* type, the caller's keyword arguments and the preferred solver
CapInputs ==
    {[impl |-> "hybrid", captcha_type |-> ty, available |-> av, does |-> d,
      kwargs |-> kw, preferred_solver |-> NoSolver] :
        ty \in CaptchaTypes, av \in SUBSET HybridSolvers,
        d \in [CapSolvers -> {"success", "failure"}], kw \in CapKwargs}
    \cup
    {[impl |-> "service", captcha_type |-> ty, available |-> av, does |-> d,
      kwargs |-> {}, preferred_solver |-> pref] :
        ty \in CaptchaTypes, av \in SUBSET ServiceSolvers,
        d \in [CapSolvers -> {"success", "failure"}],
        pref \in {NoSolver} \cup ServiceSolvers}
    \cup
    {[impl |-> "legacy", captcha_type |-> TEXT_IMAGE, available |-> av,
      does |-> d, kwargs |-> {}, preferred_solver |-> NoSolver] :
        av \in {{"tesseract"}, LegacySolvers},
        d \in [CapSolvers -> {"success", "failure"}]}

CapInit ==
    /\ \E inp \in CapInputs :
          cap = [inp |-> inp, pc |-> "idle", i |-> 1, attempts |-> << >>,
                 result |-> NoResult]
    /\ heap = << >>
    /\ proxies = << >>
    /\ lock = NoLock
    /\ task = [t \in Tasks |-> IdleTask]
    /\ file = << >>
    /\ auto_fetch = FALSE
    /\ bg = NoValidationTask
    /\ now = 0
    /\ ad = "unused"
    /\ rl = "unused"
    /\ hist = "unused"
    /\ px = "unused"
    /\ rm = "unused"
    /\ mw = "unused"
    /\ ws = "unused"

CapOthersUnchanged ==
    UNCHANGED <<heap, proxies, lock, task, file, auto_fetch, bg, now, ad, rl,
                hist, px, rm, mw, ws>>

CapAvailable(s) == s \in cap.inp.available

\* the strategies solve invokes, in the order it invokes them
HybridOrder ==
    IF cap.inp.captcha_type = TEXT_IMAGE
    THEN SelectSeq(<<"ddddocr", "easycaptcha", "tesseract", "2captcha">>,
                   CapAvailable)
    ELSE << >>

ServiceOrder ==
    IF /\ cap.inp.preferred_solver # NoSolver
       /\ cap.inp.preferred_solver \in cap.inp.available
    THEN <<cap.inp.preferred_solver>>
    ELSE IF cap.inp.captcha_type = TEXT_IMAGE
         THEN SelectSeq(<<"ddddocr", "ocr">>, CapAvailable)
         ELSE SelectSeq(<<"2captcha", "anticaptcha">>, CapAvailable)

LegacyOrder == SelectSeq(<<"tesseract", "2captcha">>, CapAvailable)

CascadeOrder ==
    CASE cap.inp.impl = "hybrid" -> HybridOrder
      [] cap.inp.impl = "service" -> ServiceOrder
      [] OTHER -> LegacyOrder

\* what invoking strategy s produces.  APICaptchaSolver of the service has no
\* _anticaptcha_recaptcha: with a captcha that is not a text image its solve
\* catches the AttributeError and answers with a failure, whatever the
\* provider would do.
CapOutcome(s) ==
    CASE /\ cap.inp.impl = "hybrid"
         /\ s = "tesseract"
         /\ ~(cap.inp.kwargs \subseteq TesseractKeywords) -> "raise"
      [] /\ cap.inp.impl = "service"
         /\ cap.inp.captcha_type # TEXT_IMAGE
         /\ s \in {"ocr", "ddddocr"} -> "raise"
      [] /\ cap.inp.impl = "service"
         /\ cap.inp.captcha_type # TEXT_IMAGE
         /\ s = "anticaptcha" -> "failure"
      [] OTHER -> cap.inp.does[s]

\* the outcome object of strategy s
StrategyResult(s, ok) ==
    [success |-> ok, by |-> s,
     solver |-> IF cap.inp.impl = "legacy" THEN "hybrid" ELSE s]

\* the failure solve builds itself when no strategy is left
NoStrategyLeft ==
    [success |-> FALSE, by |-> NoSolver,
     solver |-> IF cap.inp.impl = "hybrid" THEN "hybrid" ELSE NoSolver]

\* a cascade that returns the answer of whichever strategy it asked first
ReturnsFirstAnswer(i) == i >= 1

\* whether solve returns the answer of strategy number i without looking at
\* its success flag: the 2Captcha step of the hybrid cascade and the last
\* strategy of the legacy one
ReturnsWhatever(i) ==
    \/ cap.inp.impl = "hybrid" /\ CascadeOrder[i] = "2captcha"
    \/ cap.inp.impl = "legacy" /\ i = Len(CascadeOrder)

CapSolveCall ==
    /\ cap.pc = "idle"
    /\ cap' = [cap EXCEPT !.pc = "cascade"]
    /\ CapOthersUnchanged

\* solve invokes the next strategy, which answers with a success
CapStrategySucceeds ==
    /\ cap.pc = "cascade"
    /\ cap.i <= Len(CascadeOrder)
    /\ LET s == CascadeOrder[cap.i] IN
          /\ CapOutcome(s) = "success"
          /\ cap' = [cap EXCEPT
                        !.attempts = Append(@, [solver |-> s, outcome |-> "success"]),
                        !.result = StrategyResult(s, TRUE),
                        !.pc = "returned"]
    /\ CapOthersUnchanged

\* solve invokes the next strategy, which answers with a failure
CapStrategyFails ==
    /\ cap.pc = "cascade"
    /\ cap.i <= Len(CascadeOrder)
    /\ LET s == CascadeOrder[cap.i] IN
          /\ CapOutcome(s) = "failure"
          /\ IF ReturnsWhatever(cap.i)
             THEN cap' = [cap EXCEPT
                        !.attempts = Append(@, [solver |-> s, outcome |-> "failure"]),
                        !.result = StrategyResult(s, FALSE),
                        !.pc = "returned"]
             ELSE cap' = [cap EXCEPT
                        !.attempts = Append(@, [solver |-> s, outcome |-> "failure"]),
                        !.i = @ + 1]
    /\ CapOthersUnchanged

\* solve invokes the next strategy, which raises: the service cascade
\* catches the exception and continues, the hybrid one lets it through
CapStrategyRaises ==
    /\ cap.pc = "cascade"
    /\ cap.i <= Len(CascadeOrder)
    /\ LET s == CascadeOrder[cap.i] IN
          /\ CapOutcome(s) = "raise"
          /\ IF cap.inp.impl = "service"
             THEN cap' = [cap EXCEPT
                        !.attempts = Append(@, [solver |-> s, outcome |-> "raise"]),
                        !.i = @ + 1]
             ELSE cap' = [cap EXCEPT
                        !.attempts = Append(@, [solver |-> s, outcome |-> "raise"]),
                        !.pc = "raised"]
    /\ CapOthersUnchanged

\* no strategy is left: solve returns its own failure
CapNoStrategyLeft ==
    /\ cap.pc = "cascade"
    /\ cap.i > Len(CascadeOrder)
    /\ cap' = [cap EXCEPT !.result = NoStrategyLeft, !.pc = "returned"]
    /\ CapOthersUnchanged

\* CaptchaSolver.solve of the middleware, the caller of the hybrid cascade,
\* catches what the cascade raised and returns a failure of its own
CapMainCatches ==
    /\ cap.pc = "raised"
    /\ cap.inp.impl = "hybrid"
    /\ cap' = [cap EXCEPT
                  !.result = [success |-> FALSE, by |-> NoSolver, solver |-> "main"],
                  !.pc = "returned"]
    /\ CapOthersUnchanged

CapNext ==
    \/ CapSolveCall
    \/ CapStrategySucceeds
    \/ CapStrategyFails
    \/ CapStrategyRaises
    \/ CapNoStrategyLeft
    \/ CapMainCatches

SpecCap == CapInit /\ [][CapNext]_vars

\* the solvers of the attempts made so far, in the order they were made
AttemptedSolvers == [j \in 1..Len(cap.attempts) |-> cap.attempts[j].solver]

\* C18: when strategy k of the cascade succeeds and strategies 1..k-1 fail,
\* the strategies are attempted in cascade order, none after k is attempted,
\* and solve returns the outcome of strategy k after exactly k attempts.
C18_FirstSuccessReturned ==
    \A k \in 1..Len(CascadeOrder) :
        (/\ CapOutcome(CascadeOrder[k]) = "success"
         /\ \A j \in 1..(k - 1) : CapOutcome(CascadeOrder[j]) = "failure")
        => /\ Len(cap.attempts) <= k
           /\ AttemptedSolvers = SubSeq(CascadeOrder, 1, Len(cap.attempts))
           /\ cap.pc # "raised"
           /\ cap.pc = "returned"
                 => /\ Len(cap.attempts) = k
                    /\ cap.result.success
                    /\ cap.result.by = CascadeOrder[k]

\* the hybrid cascade returned the success of its third strategy after the
\* first two had failed
C18_Witness ==
    /\ cap.pc = "returned"
    /\ cap.inp.impl = "hybrid"
    /\ Len(cap.attempts) = 3
    /\ cap.attempts[1].outcome = "failure"
    /\ cap.attempts[2].outcome = "failure"
    /\ cap.result.success
    /\ cap.result.by = CascadeOrder[3]

\* the attempts that a returned outcome carries: an outcome has one solver
\* and one error field, those of the strategy that produced it
CarriedAttempts(r) == IF r.by = NoSolver THEN << >> ELSE <<r.by>>

\* C19: when every strategy that was tried has failed, the failure that solve
\* returns carries the attempt of each of them.
C19_FailureCarriesEveryAttempt ==
    (/\ cap.pc = "returned"
     /\ \A j \in 1..Len(cap.attempts) : cap.attempts[j].outcome = "failure")
    => /\ ~cap.result.success
       /\ CarriedAttempts(cap.result) = AttemptedSolvers

\* C20: a strategy that raises does not end the cascade: solve does not raise,
\* and when it returns it has either a success or has tried every strategy.
C20_RaisingStrategyDoesNotAbort ==
    /\ cap.pc # "raised"
    /\ cap.pc = "returned"
          => \/ cap.result.success
             \/ Len(cap.attempts) = Len(CascadeOrder)

\* the solvers that send the challenge to a provider and poll for the answer
RemoteSolvers == {"2captcha", "anticaptcha"}

\* C21: for a text image on which every local solver fails, with a remote
\* solver configured whose polling ends with a success, solve returns a
\* success whose solver name is that of the remote solver.
C21_RemoteSolvesWhenLocalFail ==
    (/\ cap.pc = "returned"
     /\ cap.inp.captcha_type = TEXT_IMAGE
     /\ cap.inp.available \cap RemoteSolvers # {}
     /\ \A s \in cap.inp.available \cap RemoteSolvers : CapOutcome(s) = "success"
     /\ \A s \in cap.inp.available \ RemoteSolvers : CapOutcome(s) = "failure")
    => /\ cap.result.success
       /\ cap.result.solver \in RemoteSolvers

\* ---------------------------------------------------------------------------
\* One exchange with a remote provider: the challenge is submitted, then the
\* answer is polled for.  The pollers are TwoCaptchaSolver._get_result of
\* captcha.py, TwoCaptchaSolver._poll_result of captcha_solver.py, and
\* APICaptchaSolver._2captcha_text and _2captcha_recaptcha of the services
\* module, each with the solve that calls it.
\*   rm = [poller, pc, polls, last, result]: the poller, the position ("idle",
\*   "polling", "returned"), the polls sent, the provider's last reply and
\*   the outcome that solve returned
\* ---------------------------------------------------------------------------

Pollers == {"_get_result", "_poll_result", "_2captcha_text", "_2captcha_recaptcha"}
MiddlewarePollers == {"_get_result", "_poll_result"}

\* _get_result and _poll_result: max_attempts; the services module: range(30)
\* for a text image and range(60) for reCAPTCHA and hCaptcha
max_attempts == 30
TextPolls == 30
RecaptchaPolls == 60

MaxPolls(poller) ==
    CASE poller \in MiddlewarePollers -> max_attempts
      [] poller = "_2captcha_text" -> TextPolls
      [] OTHER -> RecaptchaPolls

\* what the provider answers to the submission and to a poll: "ready" is
\* status 1 with the answer, "ready_empty" status 1 with an empty answer,
\* "not_ready" CAPCHA_NOT_READY, "error" an explicit error code such as
\* ERROR_CAPTCHA_UNSOLVABLE, "malformed" a reply without the expected keys
SubmitReplies == {"accepted", "refused", "malformed"}
PollReplies == {"ready", "ready_empty", "not_ready", "error", "malformed"}

RemoteInit ==
    /\ \E poller \in Pollers :
          rm = [poller |-> poller, pc |-> "idle", polls |-> 0, last |-> "none",
                result |-> NoResult]
    /\ heap = << >>
    /\ proxies = << >>
    /\ lock = NoLock
    /\ task = [t \in Tasks |-> IdleTask]
    /\ file = << >>
    /\ auto_fetch = FALSE
    /\ bg = NoValidationTask
    /\ now = 0
    /\ ad = "unused"
    /\ rl = "unused"
    /\ hist = "unused"
    /\ cap = "unused"
    /\ px = "unused"
    /\ mw = "unused"
    /\ ws = "unused"

RemoteOthersUnchanged ==
    UNCHANGED <<heap, proxies, lock, task, file, auto_fetch, bg, now, ad, rl,
                hist, cap, px, mw, ws>>

\* the solver name in the outcome that solve builds: the middleware solvers
\* always name themselves, the services solver names itself in a success and
\* in the failure built from a caught exception
RemoteResult(poller, ok, raised) ==
    [success |-> ok, by |-> "2captcha",
     solver |-> IF poller \in MiddlewarePollers \/ ok \/ raised
                THEN "2captcha" ELSE NoSolver]

\* solve submits the challenge
RmSubmit(reply) ==
    /\ rm.pc = "idle"
    /\ rm' = IF reply = "accepted"
             THEN [rm EXCEPT !.pc = "polling", !.last = reply]
             ELSE [rm EXCEPT !.pc = "returned", !.last = reply,
                             !.result = RemoteResult(rm.poller, FALSE,
                                                     reply = "malformed")]
    /\ RemoteOthersUnchanged

\* whether the poll loop has another round after polls rounds
MorePollsForever(polls, poller) == polls >= 0
MorePolls(polls, poller) == polls < MaxPolls(poller)

\* what one round of the poll loop decides on the provider's reply: "success",
\* "failure", "raise" (caught by solve) or "continue"
PollDecision(poller, reply) ==
    IF poller \in MiddlewarePollers
    THEN CASE reply = "ready" -> "success"
           [] reply = "ready_empty" -> "failure"
           [] reply = "not_ready" -> "continue"
           [] reply = "error" -> "failure"
           [] OTHER -> IF poller = "_get_result" THEN "raise" ELSE "failure"
    ELSE CASE reply \in {"ready", "ready_empty"} -> "success"
           [] reply \in {"not_ready", "error"} -> "continue"
           [] OTHER -> "raise"

\* one round of the poll loop: the sleep, the request and the handling of the
\* reply, and the return of solve when the loop ends with this round
RmPoll(reply) ==
    /\ rm.pc = "polling"
    /\ MorePolls(rm.polls, rm.poller)
    /\ LET d == PollDecision(rm.poller, reply) IN
          rm' = IF d = "continue" /\ MorePolls(rm.polls + 1, rm.poller)
                THEN [rm EXCEPT !.polls = @ + 1, !.last = reply]
                ELSE [rm EXCEPT !.polls = @ + 1, !.last = reply,
                                !.pc = "returned",
                                !.result = RemoteResult(rm.poller, d = "success",
                                                        d = "raise")]
    /\ RemoteOthersUnchanged

RemoteNext ==
    \/ \E reply \in SubmitReplies : RmSubmit(reply)
    \/ \E reply \in PollReplies : RmPoll(reply)

SpecRemote == RemoteInit /\ [][RemoteNext]_vars

\* C22: while polling, a "not ready" reply is followed by another poll unless
\* it was the last one allowed, a success reply ends the polling with a
\* success, and an explicit provider error ends it at once with a failure.
C22_RepliesDecidePolling ==
    [][rm.pc = "polling"
       => /\ (rm'.last = "not_ready" /\ rm'.polls < MaxPolls(rm.poller))
                => rm'.pc = "polling"
          /\ rm'.last = "ready"
                => rm'.pc = "returned" /\ rm'.result.success
          /\ rm'.last = "error"
                => rm'.pc = "returned" /\ ~rm'.result.success
      ]_vars

\* C23: no more than the maximum number of polls is sent, and once that many
\* were answered without a success the strategy has returned a failure.
C23_PollingBounded ==
    /\ rm.polls <= MaxPolls(rm.poller)
    /\ rm.polls = MaxPolls(rm.poller)
          => /\ rm.pc = "returned"
             /\ rm.last \notin {"ready", "ready_empty"} => ~rm.result.success

\* the provider answered "not ready" to every one of the 60 polls for a
\* reCAPTCHA and the strategy returned a failure
C23_Witness ==
    /\ rm.poller = "_2captcha_recaptcha"
    /\ rm.pc = "returned"
    /\ rm.polls = RecaptchaPolls
    /\ rm.last = "not_ready"
    /\ ~rm.result.success

\* ---------------------------------------------------------------------------
\* The downloader middlewares, each taken alone with the request it handles:
\* RetryMiddleware of spiders/base.py, CaptchaMiddleware of captcha.py and of
\* captcha_solver.py, AntiSpiderMiddleware and ProxyMiddleware of
\* anti_spider.py.  The engine downloads the request and hands the response
\* or the exception to the middleware; a request that the middleware returns
\* is scheduled again unless the duplicate filter drops it.
\*   mw.which names the middleware, mw.pc is the position of the request:
\*   "scheduled", "downloading", "delivered" (the response went on to the
\*   spider's callback), "dropped" (the exception went on to the errback),
\*   "filtered", "errback" (the errback has run) or "errored" (the callback
\*   raised and the spider_error handler has run)
\* ---------------------------------------------------------------------------

\* RETRY_TIMES and RETRY_HTTP_CODES of BaseSpider.custom_settings
RETRY_TIMES == 3
RETRY_HTTP_CODES == {500, 502, 503, 504, 522, 524, 408, 429}

\* the statuses a target answers with
Statuses == {200, 403, 404, 429, 500}
MwUrls == {"http://a/1", "http://b/1"}

\* what the middleware handled last: a response with its status, an
\* exception, or a request on its way out
NoEvent == [kind |-> "none", status |-> 0, domain |-> "none"]
Event(kind, status, domain) == [kind |-> kind, status |-> status, domain |-> domain]

\* the netloc of a URL
Domains == {"a", "b"}
get_domain(url) == IF url = "http://a/1" THEN "a" ELSE "b"

MwOthersUnchanged ==
    UNCHANGED <<heap, proxies, lock, task, file, auto_fetch, bg, now, ad, rl,
                hist, cap, px, rm, ws>>

RetryInputs ==
    {[which |-> "retry", max_retry_times |-> m, pc |-> "scheduled",
      request |-> [url |-> u, retry_times |-> 0, dont_retry |-> dr,
                   dont_filter |-> df, priority |-> 0],
      failed_urls |-> << >>, last |-> NoEvent] :
        m \in 0..RETRY_TIMES, u \in MwUrls, dr \in BOOLEAN, df \in BOOLEAN}

CaptchaInputs ==
    {[which |-> "captcha", auto_solve |-> a, pc |-> "scheduled",
      request |-> [url |-> u, captcha_result |-> FALSE, dont_filter |-> df],
      last |-> NoEvent] :
        a \in BOOLEAN, u \in MwUrls, df \in BOOLEAN}

\* the engine schedules a request that a middleware returned: the duplicate
\* filter has seen its URL and lets it through only with dont_filter
Rescheduled(request) == request.dont_filter

\* _retry: whether another retry is within the budget
RetryUnbounded(retries, max) == retries >= 1
RetryAllowed(retries, max) == retries <= max

\* _retry(request, reason, spider)
retry(m) ==
    LET retries == m.request.retry_times + 1 IN
    IF RetryAllowed(retries, m.max_retry_times)
    THEN [m EXCEPT !.request.retry_times = retries,
                   !.request.dont_filter = TRUE,
                   !.request.priority = @ - 1,
                   !.pc = "scheduled"]
    ELSE [m EXCEPT !.failed_urls = Append(@, m.request.url)]

\* the engine takes the scheduled request and sends it to the target
MwDownload ==
    /\ mw.which \in {"retry", "captcha"}
    /\ mw.pc = "scheduled"
    /\ mw' = [mw EXCEPT !.pc = "downloading"]
    /\ MwOthersUnchanged

\* RetryMiddleware.process_response(request, response, spider)
MwRetryProcessResponse(status) ==
    /\ mw.which = "retry"
    /\ mw.pc = "downloading"
    /\ LET m == [mw EXCEPT !.pc = "delivered",
                            !.last = Event("response", status,
                                           get_domain(mw.request.url))] IN
          mw' = IF mw.request.dont_retry THEN m
                ELSE IF status \in RETRY_HTTP_CODES THEN retry(m)
                ELSE m
    /\ MwOthersUnchanged

\* RetryMiddleware.process_exception(request, exception, spider)
MwRetryProcessException ==
    /\ mw.which = "retry"
    /\ mw.pc = "downloading"
    /\ mw' = retry([mw EXCEPT !.pc = "dropped",
                              !.last = Event("exception", 0,
                                             get_domain(mw.request.url))])
    /\ MwOthersUnchanged

\* BaseSpider.errback_httpbin(failure), the errback of every request that
\* create_request makes: it is called with the exception that
\* process_exception let through
MwErrback ==
    /\ mw.which = "retry"
    /\ mw.pc = "dropped"
    /\ mw' = [mw EXCEPT !.failed_urls = Append(@, mw.request.url),
                        !.pc = "errback"]
    /\ MwOthersUnchanged

\* BaseSpider.spider_error(failure, response, spider): the callback of the
\* request raised on the response it was given (BaseSpider.parse does)
MwSpiderError ==
    /\ mw.which = "retry"
    /\ mw.pc = "delivered"
    /\ mw' = [mw EXCEPT !.failed_urls = Append(@, mw.request.url),
                        !.pc = "errored"]
    /\ MwOthersUnchanged

\* CaptchaMiddleware.process_response(request, response, spider): the response
\* is a challenge or not, its image can be extracted or not, and the solver
\* succeeds or not
MwCaptchaProcessResponse(challenge, image, solved) ==
    /\ mw.which = "captcha"
    /\ mw.pc = "downloading"
    /\ mw' = IF challenge /\ mw.auto_solve /\ image /\ solved
             THEN [mw EXCEPT !.request.captcha_result = TRUE,
                             !.last = Event("solved", 200,
                                            get_domain(mw.request.url)),
                             !.pc = IF Rescheduled(mw.request)
                                    THEN "scheduled" ELSE "filtered"]
             ELSE [mw EXCEPT !.last = Event("response", 200,
                                            get_domain(mw.request.url)),
                             !.pc = "delivered"]
    /\ MwOthersUnchanged

\* the requests and responses that AntiSpiderMiddleware handles in one run
MaxMwRequests == 3
\* the clock stops being advanced from outside after this many seconds
MaxMwTime == 2
\* delays and times are counted in 1/DelayUnit seconds: a delay stays exact
\* over MaxMwRequests multiplications by 1.1
DelayUnit == 10 ^ MaxMwRequests

\* _throttle_request raises the delay once a domain has had more than this
\* many requests
RequestCountThreshold == 100
\* the ceilings of the delay: after a 429 and after too many requests
ThrottledCeiling == 10
CountCeiling == 5

\* DOWNLOAD_DELAY: 1 in BaseSpider, 2 in the company spider.  A domain starts
\* with no request or with RequestCountThreshold requests behind it, which
\* leave the delay as it was, the last of them at time 0.
AntiSpiderInputs ==
    {[which |-> "antispider", delay |-> d * DelayUnit,
      domain_last_access |-> [x \in Domains |-> IF c[x] = 0 THEN None ELSE 0],
      domain_request_count |-> c, time |-> 0, calls |-> 0,
      captcha_detected |-> [u \in MwUrls |-> FALSE], pc |-> "idle",
      last |-> NoEvent] :
        d \in {1, 2}, c \in [Domains -> {0, RequestCountThreshold}]}

\* the delay that _throttle_request applies to a request for a domain
DelayFor(domain) == mw.delay

\* _throttle_request(domain)
throttle_request(m, domain) ==
    LET elapsed == m.time - m.domain_last_access[domain]
        sleep_time == IF /\ m.domain_last_access[domain] # None
                         /\ elapsed < m.delay
                      THEN m.delay - elapsed ELSE 0
        count == m.domain_request_count[domain] + 1
    IN [m EXCEPT !.time = @ + sleep_time,
                 !.domain_last_access[domain] = m.time + sleep_time,
                 !.domain_request_count[domain] = count,
                 !.delay = IF count > RequestCountThreshold
                           THEN Min((@ * 11) \div 10, CountCeiling * DelayUnit)
                           ELSE @]

\* AntiSpiderMiddleware.process_request(request, spider)
MwAntiProcessRequest(url) ==
    /\ mw.which = "antispider"
    /\ mw.calls < MaxMwRequests
    /\ mw' = throttle_request(
                [mw EXCEPT !.calls = @ + 1,
                           !.last = Event("request", 0, get_domain(url))],
                get_domain(url))
    /\ MwOthersUnchanged

\* AntiSpiderMiddleware.process_response(request, response, spider); redirected
\* tells whether the response URL is that of a captcha or verify page.
\* captcha_detected[url] is meta['captcha_detected'] of the request for url:
\* a response from such a page sets it, and nothing clears it.
MwAntiProcessResponse(url, status, redirected) ==
    /\ mw.which = "antispider"
    /\ mw.calls < MaxMwRequests
    /\ mw' = [mw EXCEPT !.calls = @ + 1,
                        !.last = Event("response", status, get_domain(url)),
                        !.captcha_detected[url] = @ \/ redirected,
                        !.delay = IF status = 429
                                  THEN Min(@ * 2, ThrottledCeiling * DelayUnit)
                                  ELSE @]
    /\ MwOthersUnchanged

\* a second passes
MwTick ==
    /\ mw.which = "antispider"
    /\ mw.time < MaxMwTime * DelayUnit
    /\ mw' = [mw EXCEPT !.time = @ + DelayUnit, !.last = NoEvent]
    /\ MwOthersUnchanged

\* ProxyMiddleware works on the pool of proxy.py.  A candidate of the pool
\* has been validated once (one success) and may have failed once since;
\* stale tells that its last check is more than an hour old.
MwProxyObjects ==
    {[score |-> sc, success_count |-> 1, fail_count |-> f,
      avg_response_time |-> 100, stale |-> st] :
        sc \in {95, 100}, f \in {0, 1}, st \in BOOLEAN}

\* get_proxy_pool() is None until init_proxy_pool has been called
ProxyInputs ==
    {[which |-> "proxy", proxy_enabled |-> en, has_pool |-> hp, objs |-> os,
      proxies |-> ps, current_index |-> 0, failed_proxies |-> {},
      request |-> [proxy_info |-> 0], sent |-> "none", outcomes |-> 0,
      calls |-> 0, pc |-> "new", last |-> NoEvent] :
        en \in BOOLEAN, hp \in BOOLEAN, os \in [1..2 -> MwProxyObjects],
        ps \in {<< >>, <<1>>, <<1, 2>>}}

\* ProxyInfo.is_valid: checked within the hour and success_rate > 0.5
PxIsValid(o) == ~o.stale /\ 2 * o.success_count > o.success_count + o.fail_count

\* whether candidate a sorts before candidate b under
\* sort(key=(score, success_rate), reverse=True)
PxBefore(a, b) ==
    \/ a.score > b.score
    \/ /\ a.score = b.score
       /\ a.success_count * (b.success_count + b.fail_count)
             > b.success_count * (a.success_count + a.fail_count)

\* the stable sort of a list of at most two candidates
PxSort(objs, ids) ==
    IF Len(ids) = 2 /\ PxBefore(objs[ids[2]], objs[ids[1]])
    THEN <<ids[2], ids[1]>>
    ELSE ids

PxValid(i) == PxIsValid(mw.objs[i])

\* ProxyPool.get_proxy() of proxy.py: the candidate returned, or 0 for None
PxGetProxy ==
    LET valid_proxies == PxSort(mw.objs, SelectSeq(mw.proxies, PxValid)) IN
    IF valid_proxies = << >> THEN 0
    ELSE valid_proxies[(mw.current_index % Len(valid_proxies)) + 1]

\* ProxyMiddleware.process_request(request, spider), and the request going out
MwProxyProcessRequest ==
    /\ mw.which = "proxy"
    /\ mw.pc = "new"
    /\ mw.calls < MaxMwRequests
    /\ LET asks == mw.proxy_enabled /\ mw.has_pool
           proxy_info == IF asks THEN PxGetProxy ELSE 0
       IN mw' = [mw EXCEPT
                    !.request.proxy_info = proxy_info,
                    !.current_index = IF asks /\ proxy_info # 0 THEN @ + 1 ELSE @,
                    !.sent = IF proxy_info = 0 THEN "direct" ELSE "proxy",
                    !.outcomes = 0,
                    !.calls = @ + 1,
                    !.last = Event("request", 0, "none"),
                    !.pc = "downloading"]
    /\ MwOthersUnchanged

\* ProxyPool.mark_failure(proxy) of proxy.py on the middleware's pool
MwPoolMarkFailure(m, i) ==
    LET o == PxRecordFailure(m.objs[i]) IN
    [m EXCEPT !.objs[i] = o,
              !.proxies = IF PxRemoves(o) THEN SelectSeq(@, LAMBDA x : x # i) ELSE @,
              !.outcomes = @ + 1]

\* ProxyMiddleware.process_response(request, response, spider).  The response
\* a downloader middleware is given is not tied to a request yet, so that with
\* status 200 the read of response.meta raises AttributeError before
\* mark_success is called: nothing is recorded and the response is not passed
\* on
MwProxyProcessResponse(status) ==
    /\ mw.which = "proxy"
    /\ mw.pc = "downloading"
    /\ LET i == mw.request.proxy_info
           m == [mw EXCEPT !.pc = "new", !.last = Event("response", status, "none")]
       IN mw' = IF i = 0 THEN m
                ELSE IF status = 200
                THEN [m EXCEPT !.last = Event("raised", status, "none")]
                ELSE MwPoolMarkFailure(m, i)
    /\ MwOthersUnchanged

\* ProxyMiddleware.process_exception(request, exception, spider)
MwProxyProcessException ==
    /\ mw.which = "proxy"
    /\ mw.pc = "downloading"
    /\ LET i == mw.request.proxy_info
           m == [mw EXCEPT !.pc = "new", !.last = Event("exception", 0, "none")]
       IN mw' = IF i = 0 THEN m
                ELSE [MwPoolMarkFailure(m, i) EXCEPT !.failed_proxies = @ \cup {i}]
    /\ MwOthersUnchanged

MwInit ==
    /\ mw \in RetryInputs \cup CaptchaInputs \cup AntiSpiderInputs \cup ProxyInputs
    /\ heap = << >>
    /\ proxies = << >>
    /\ lock = NoLock
    /\ task = [t \in Tasks |-> IdleTask]
    /\ file = << >>
    /\ auto_fetch = FALSE
    /\ bg = NoValidationTask
    /\ now = 0
    /\ ad = "unused"
    /\ rl = "unused"
    /\ hist = "unused"
    /\ cap = "unused"
    /\ px = "unused"
    /\ rm = "unused"
    /\ ws = "unused"

MwNext ==
    \/ MwDownload
    \/ \E status \in Statuses : MwRetryProcessResponse(status)
    \/ MwRetryProcessException
    \/ MwErrback
    \/ MwSpiderError
    \/ \E challenge \in BOOLEAN, image \in BOOLEAN, solved \in BOOLEAN :
          MwCaptchaProcessResponse(challenge, image, solved)
    \/ \E url \in MwUrls : MwAntiProcessRequest(url)
    \/ \E url \in MwUrls, status \in Statuses, redirected \in BOOLEAN :
          MwAntiProcessResponse(url, status, redirected)
    \/ MwTick
    \/ MwProxyProcessRequest
    \/ \E status \in Statuses : MwProxyProcessResponse(status)
    \/ MwProxyProcessException

SpecMw == MwInit /\ [][MwNext]_vars
FairSpecMw == SpecMw /\ WF_vars(MwNext)

\* C24: a fetch that meets challenges, each of them solved, is not downloaded
\* again for ever: it comes to an end.
C24_CaptchaRefetchesEnd ==
    (mw.which = "captcha" /\ mw.pc = "scheduled")
        ~> (mw.which = "captcha" /\ mw.pc \in {"delivered", "filtered"})

\* whether what RetryMiddleware handled last calls for a retry
RetryCalledFor ==
    \/ mw.last.kind = "exception"
    \/ /\ mw.last.kind = "response"
       /\ mw.last.status \in RETRY_HTTP_CODES
       /\ ~mw.request.dont_retry

\* C25: retry_times never exceeds max_retry_times, and a request that is not
\* issued again although its last response or exception called for a retry
\* has used up its budget and has its URL in failed_urls.
C25_RetriesWithinBudget ==
    mw.which = "retry"
    => /\ mw.request.retry_times <= mw.max_retry_times
       /\ (mw.pc \in {"delivered", "dropped", "errback", "errored"} /\ RetryCalledFor)
             => /\ mw.request.retry_times = mw.max_retry_times
                /\ InSeq(mw.failed_urls, mw.request.url)

\* the budget of RETRY_TIMES retries was used up and the request was given
\* up on an exception, which its errback recorded too
C25_Witness ==
    /\ mw.which = "retry"
    /\ mw.max_retry_times = RETRY_TIMES
    /\ mw.request.retry_times = RETRY_TIMES
    /\ mw.pc = "errback"
    /\ mw.last.kind = "exception"
    /\ mw.failed_urls = <<mw.request.url, mw.request.url>>

\* C27: with ProxyMiddleware enabled on a pool that holds proxies, a request
\* for which the pool has no valid proxy does not go out without one.
C27_NoFetchWithoutProxy ==
    (/\ mw.which = "proxy"
     /\ mw.proxy_enabled
     /\ mw.has_pool
     /\ mw.proxies # << >>
     /\ mw.pc = "downloading")
    => mw.sent = "proxy"

\* C28: a request that went out through a proxy and has ended, with an answer
\* or with an exception, has exactly one outcome recorded on that proxy.
C28_OneOutcomePerFetch ==
    (/\ mw.which = "proxy"
     /\ mw.pc = "new"
     /\ mw.last.kind \in {"response", "raised", "exception"}
     /\ mw.sent = "proxy")
    => mw.outcomes = 1

\* C29: what AntiSpiderMiddleware handles for one domain, a request or a
\* response, leaves the delay applied to every other domain as it was.
C29_DomainsThrottledApart ==
    [][(mw.which = "antispider" /\ mw'.last.kind \in {"request", "response"})
       => \A d \in Domains \ {mw'.last.domain} : DelayFor(d)' = DelayFor(d)
      ]_vars

\* ---------------------------------------------------------------------------
\* WebScraper of services/scraper.py: scrape with its three strategies, and
\* scrape_multiple.  The scrapes that are in progress together share the
\* ProxyRotator, the RateLimiter and the browser of the WebScraper.  A step
\* runs one coroutine from one suspension to the next.
\*   ws = [proxy_list, current_index, failed_proxies   the ProxyRotator
\*         strategy, rate_limit                         as constructed
\*         calls                                        scrape calls so far
\*         tokens, limiter                              the RateLimiter: its
\*                         tokens, and the holder and waiters of its lock
\*         playwright, browser, browser_proxy           self.playwright is set,
\*                         self.browser ("none" or what made it) and the
\*                         proxy the Selenium browser was started with
\*         multi, sem, returned                         the scrape_multiple
\*                         call in progress, its semaphore, what the last
\*                         call ended with
\*         slot                                         per scrape in progress
\*         last]                                        what the scrape that
\*                         ended last returned or raised
\*   slot[c] = [pc, via, method, result, cancel, outcome]:
\*   via is "scrape" for a direct call and "multiple" for a task of
\*   scrape_multiple, result what scrape returns or raises, cancel the cancellation of its task not received yet ("future"
\*   when it cancelled the future of a lock or semaphore waiter that was not
\*   woken), outcome what _scrape_playwright is leaving with while it closes
\*   the context
\*   mark_success and mark_failed of the rotator are called on no path that
\*   is reached, so that failed_proxies stays empty
\* ---------------------------------------------------------------------------

\* scrape calls in one run (scrape_multiple makes two)
MaxWsRequests == 3
WsCallers == {"s1", "s2"}
WsProxies == <<"p1", "p2">>
NoProxy == "none"
Methods == {"GET", "POST", "PUT"}
Strategies == {"http", "selenium", "playwright", "hybrid", "unknown"}
\* rate_limit of the constructor, in tokens per second
WsRates == {0, 2}
\* the seconds between two readings of time.time() in RateLimiter.acquire: the
\* wall clock may have been set back
WsElapsed == {-5, 5}
\* the statuses a target answers the browser with
WsStatuses == {200, 404}
Concurrencies == {1, 2}
\* RateLimiter(rate_per_second=rate_limit): burst keeps its default
burst == 10
\* the tokens of the rate limiter when the run starts: burst in a new
\* WebScraper, none after ten scrapes within the same instant
WsTokens == {burst, 0}

\* ScrapingResult; "raised" is set when scrape raised instead of returning,
\* "sent" when the request went out, and "answered" is the status the target
\* answered it with, which the browser strategies do not look at
NoScrapingResult ==
    [success |-> FALSE, status_code |-> 0, error |-> "none",
     proxy_used |-> NoProxy, raised |-> FALSE, sent |-> FALSE, answered |-> 0]

IdleSlot ==
    [pc |-> "idle", via |-> "scrape", method |-> "GET",
     result |-> NoScrapingResult, cancel |-> "none", outcome |-> "none"]

\* what the strategy is told by the world in one step: the reading of the
\* clock, whether rotation_interval has passed, and what Selenium meets:
\* Chrome does not start, does not load the page, or loads the page the
\* target answers with status 200 or 404
WsInputs ==
    [elapsed : WsElapsed, rotate : BOOLEAN,
     selenium : {"no_browser", "no_page", "page_200", "page_404"}]

\* whether Chrome loaded a page, and the status the target answered it with
PageLoaded(selenium) == selenium \in {"page_200", "page_404"}
PageStatus(selenium) == IF selenium = "page_404" THEN 404 ELSE 200

WsInit ==
    /\ \E n \in 0..Len(WsProxies), st \in Strategies, rate \in WsRates,
          tokens \in WsTokens :
          ws = [proxy_list |-> SubSeq(WsProxies, 1, n), current_index |-> 0,
                failed_proxies |-> {}, strategy |-> st, rate_limit |-> rate,
                tokens |-> tokens, calls |-> 0,
                limiter |-> [holder |-> "none", waiters |-> << >>],
                playwright |-> FALSE, browser |-> "none", browser_proxy |-> NoProxy,
                multi |-> "none",
                sem |-> [value |-> 0, waiters |-> << >>, woken |-> {}],
                returned |-> "none",
                slot |-> [c \in WsCallers |-> IdleSlot],
                last |-> NoScrapingResult]
    /\ heap = << >>
    /\ proxies = << >>
    /\ lock = NoLock
    /\ task = [t \in Tasks |-> IdleTask]
    /\ file = << >>
    /\ auto_fetch = FALSE
    /\ bg = NoValidationTask
    /\ now = 0
    /\ ad = "unused"
    /\ rl = "unused"
    /\ hist = "unused"
    /\ cap = "unused"
    /\ px = "unused"
    /\ rm = "unused"
    /\ mw = "unused"

WsOthersUnchanged ==
    UNCHANGED <<heap, proxies, lock, task, file, auto_fetch, bg, now, ad, rl,
                hist, cap, px, rm, mw>>

\* a loop that returns the current entry of the list whether it has failed
\* or not
SkipNothing(proxy_list, failed, i, attempts) ==
    [proxy |-> proxy_list[i + 1], current_index |-> i]

\* the while loop of ProxyRotator.get_proxy: from index i, after attempts
\* rounds, the proxy found (or NoProxy) and the index reached
RECURSIVE SkipFailed(_, _, _, _)
SkipFailed(proxy_list, failed, i, attempts) ==
    IF attempts >= Len(proxy_list)
    THEN [proxy |-> NoProxy, current_index |-> i]
    ELSE IF proxy_list[i + 1] \notin failed
    THEN [proxy |-> proxy_list[i + 1], current_index |-> i]
    ELSE SkipFailed(proxy_list, failed, (i + 1) % Len(proxy_list), attempts + 1)

\* ProxyRotator.get_proxy(); rotate tells that rotation_interval has passed
\* since last_rotation.  A WebScraper without proxies has no rotator.
rotator_get_proxy(w, rotate) ==
    IF w.proxy_list = << >>
    THEN [proxy |-> NoProxy, current_index |-> w.current_index]
    ELSE SkipFailed(w.proxy_list, w.failed_proxies,
                    IF rotate THEN (w.current_index + 1) % Len(w.proxy_list)
                    ELSE w.current_index,
                    0)

\* asyncio.Semaphore._wake_up_next: the first waiter whose future is not done
\* is given a permit and woken
SemWakeUpNext(w) ==
    LET waiting == SelectSeq(w.sem.waiters,
                             LAMBDA x : x \notin w.sem.woken /\ w.slot[x].cancel # "future")
    IN IF waiting = << >> THEN w
       ELSE [w EXCEPT !.sem.value = @ - 1, !.sem.woken = @ \cup {Head(waiting)}]

\* asyncio.Semaphore.release
SemRelease(w) == SemWakeUpNext([w EXCEPT !.sem.value = @ + 1])

\* asyncio.Semaphore.locked: no permit, or a waiter that is not cancelled
SemLocked(w) ==
    \/ w.sem.value = 0
    \/ \E i \in 1..Len(w.sem.waiters) : w.slot[w.sem.waiters[i]].cancel # "future"

\* the scrape of c is over with result res: a direct call is back with its
\* caller; in scrape_multiple, scrape_with_semaphore leaves "async with
\* semaphore" and its task is done
WsFinished(w, c, res) ==
    LET w1 == [w EXCEPT !.last = res]
    IN IF w.slot[c].via = "scrape"
       THEN [w1 EXCEPT !.slot[c] = IdleSlot]
       ELSE SemRelease([w1 EXCEPT !.slot[c] = [IdleSlot EXCEPT !.pc = "done",
                                                                !.via = "multiple"]])

\* the strategy returns ScrapingResult(success=True, ...)
WsSucceeds(w, c, status, proxy_used) ==
    WsFinished(w, c, [w.slot[c].result EXCEPT !.success = TRUE,
                                              !.status_code = status,
                                              !.proxy_used = proxy_used])

\* an exception scrape lets through to its caller
WsRaises(w, c, error) ==
    WsFinished(w, c, [w.slot[c].result EXCEPT !.error = error, !.raised = TRUE])

\* "except Exception as e" of scrape: ScrapingResult(success=False,
\* error=str(e))
WsFails(w, c, error) ==
    WsFinished(w, c, [w.slot[c].result EXCEPT !.error = error])

\* _scrape_http: get_proxy, then session.get(url, headers=headers,
\* proxy=proxy) or session.post(..., proxy=proxy).  get and post of
\* httpx.AsyncClient take no proxy argument: the call raises TypeError before
\* anything is awaited or sent.  A TypeError is no httpx.HTTPError, so that
\* mark_failed is not called, and the lines after the call, mark_success and
\* the result built from the response, are never reached.
WsScrapeHttp(w, c, inp) ==
    LET g == rotator_get_proxy(w, inp.rotate)
        w1 == [w EXCEPT !.current_index = g.current_index]
    IN IF w.slot[c].method \notin {"GET", "POST"}
       THEN WsFails(w1, c, "ValueError")
       ELSE WsFails(w1, c, "TypeError")

\* _scrape_selenium, which never suspends: the browser is started, with the
\* proxy of the rotator, when the WebScraper has none, and loads the page
WsScrapeSelenium(w, c, inp) ==
    LET g == rotator_get_proxy(w, inp.rotate)
        start == w.browser = "none"
        w1 == IF start THEN [w EXCEPT !.current_index = g.current_index] ELSE w
    IN IF start /\ inp.selenium = "no_browser"
       THEN WsFails(w1, c, "Exception")
       ELSE LET w2 == IF start
                      THEN [w1 EXCEPT !.browser = "selenium", !.browser_proxy = g.proxy]
                      ELSE w1
                w3 == [w2 EXCEPT !.slot[c].result.sent = TRUE,
                                 !.slot[c].result.answered =
                                     IF PageLoaded(inp.selenium)
                                     THEN PageStatus(inp.selenium) ELSE 0]
            IN IF PageLoaded(inp.selenium) THEN WsSucceeds(w3, c, 0, NoProxy)
               ELSE WsFails(w3, c, "Exception")

\* _scrape_playwright at "await self.browser.new_context(...)": with
\* self.browser still None the attribute lookup raises AttributeError
WsPlaywrightContext(w, c) ==
    IF w.browser = "none" THEN WsFails(w, c, "AttributeError")
    ELSE [w EXCEPT !.slot[c].pc = "pw_context"]

\* _scrape_playwright up to its first await
WsScrapePlaywright(w, c) ==
    IF ~w.playwright THEN [w EXCEPT !.slot[c].pc = "pw_start"]
    ELSE WsPlaywrightContext(w, c)

\* scrape after the rate limiter: _determine_strategy, which returns HTTP
\* without suspending, and the strategy up to its first suspension
WsStrategy(w, c, inp) ==
    LET strategy == IF w.strategy = "hybrid" THEN "http" ELSE w.strategy
    IN CASE strategy = "http" -> WsScrapeHttp(w, c, inp)
         [] strategy = "selenium" -> WsScrapeSelenium(w, c, inp)
         [] strategy = "playwright" -> WsScrapePlaywright(w, c)
         [] OTHER -> WsFails(w, c, "ValueError")

\* asyncio.Lock of the rate limiter: the waiter that was woken, and whether
\* acquire goes on without waiting
WsLimiterWoken(w, c) ==
    /\ w.limiter.holder = "none"
    /\ w.limiter.waiters # << >>
    /\ Head(w.limiter.waiters) = c
    /\ w.slot[c].cancel # "future"

WsLimiterFree(w) ==
    /\ w.limiter.holder = "none"
    /\ \A i \in 1..Len(w.limiter.waiters) : w.slot[w.limiter.waiters[i]].cancel = "future"

\* RateLimiter.acquire inside its lock, and scrape after it: with less than a
\* token acquire sleeps for (1 - tokens) / rate_per_second, which is a
\* division by zero for rate_limit = 0, raised before the try of scrape
WsAcquireBody(w, c, inp) ==
    LET tokens == Min(burst, w.tokens + inp.elapsed * w.rate_limit)
    IN IF tokens < 1
       THEN IF w.rate_limit = 0
            THEN WsRaises([w EXCEPT !.tokens = tokens], c, "ZeroDivisionError")
            ELSE [w EXCEPT !.tokens = tokens, !.limiter.holder = c,
                           !.slot[c].pc = "limiter_sleep"]
       ELSE WsStrategy([w EXCEPT !.tokens = tokens - 1], c, inp)

\* scrape up to its first suspension
WsScrape(w, c, inp) ==
    IF WsLimiterFree(w) THEN WsAcquireBody(w, c, inp)
    ELSE [w EXCEPT !.limiter.waiters = Append(@, c), !.slot[c].pc = "limiter_lock"]

\* scrape(url, method) called directly
WsScrapeCall(c, method, inp) ==
    /\ ws.multi = "none"
    /\ ws.slot[c].pc = "idle"
    /\ ws.calls < MaxWsRequests
    /\ ws' = WsScrape([ws EXCEPT !.calls = @ + 1,
                                 !.slot[c] = [IdleSlot EXCEPT !.method = method]], c, inp)
    /\ WsOthersUnchanged

\* the scrape that was woken takes the lock of the rate limiter
WsLimiterLock(c, inp) ==
    /\ ws.slot[c].pc = "limiter_lock"
    /\ WsLimiterWoken(ws, c)
    /\ ws.slot[c].cancel = "none"
    /\ ws' = WsAcquireBody([ws EXCEPT !.limiter.waiters = Tail(@)], c, inp)
    /\ WsOthersUnchanged

\* the sleep of acquire is over: tokens = 0, the lock is released
WsLimiterWake(c, inp) ==
    /\ ws.slot[c].pc = "limiter_sleep"
    /\ ws.slot[c].cancel = "none"
    /\ ws' = WsStrategy([ws EXCEPT !.tokens = 0, !.limiter.holder = "none"], c, inp)
    /\ WsOthersUnchanged

\* async_playwright().start() has returned: self.playwright is set, launch is
\* awaited
WsPwStarted(c) ==
    /\ ws.slot[c].pc = "pw_start"
    /\ ws.slot[c].cancel = "none"
    /\ ws' = [ws EXCEPT !.playwright = TRUE, !.slot[c].pc = "pw_launch"]
    /\ WsOthersUnchanged

\* chromium.launch has returned: self.browser is set, new_context is awaited
WsPwLaunched(c) ==
    /\ ws.slot[c].pc = "pw_launch"
    /\ ws.slot[c].cancel = "none"
    /\ ws' = WsPlaywrightContext([ws EXCEPT !.browser = "playwright"], c)
    /\ WsOthersUnchanged

\* new_context has returned: get_proxy, whose proxy the context does not
\* use, then set_geolocation and new_page are awaited
WsPwContext(c, rotate) ==
    /\ ws.slot[c].pc = "pw_context"
    /\ ws.slot[c].cancel = "none"
    /\ ws' = [ws EXCEPT !.current_index = rotator_get_proxy(ws, rotate).current_index,
                        !.slot[c].pc = "pw_new_page"]
    /\ WsOthersUnchanged

\* new_page has returned: page.goto is awaited
WsPwNewPage(c) ==
    /\ ws.slot[c].pc = "pw_new_page"
    /\ ws.slot[c].cancel = "none"
    /\ ws' = [ws EXCEPT !.slot[c].result.sent = TRUE, !.slot[c].pc = "pw_page"]
    /\ WsOthersUnchanged

\* the awaits on the page have returned the content of the page the target
\* answered with status, or one of them has raised: "finally: await
\* context.close()"
WsPwPage(c, ok, status) ==
    /\ ws.slot[c].pc = "pw_page"
    /\ ws.slot[c].cancel = "none"
    /\ ws' = [ws EXCEPT !.slot[c].outcome = IF ok THEN "success" ELSE "Exception",
                        !.slot[c].result.answered = IF ok THEN status ELSE 0,
                        !.slot[c].pc = "pw_close"]
    /\ WsOthersUnchanged

\* context.close() has returned, and _scrape_playwright leaves with what it
\* had, or has raised
WsPwClosed(c, ok) ==
    /\ ws.slot[c].pc = "pw_close"
    /\ ws.slot[c].cancel = "none"
    /\ ws' = IF ~ok THEN WsFails(ws, c, "Exception")
             ELSE CASE ws.slot[c].outcome = "success" -> WsSucceeds(ws, c, 0, NoProxy)
                    [] ws.slot[c].outcome = "Exception" -> WsFails(ws, c, "Exception")
                    [] OTHER -> WsRaises(ws, c, "CancelledError")
    /\ WsOthersUnchanged

\* start, launch, new_context, set_geolocation or new_page raises
WsPwError(c) ==
    /\ ws.slot[c].pc \in {"pw_start", "pw_launch", "pw_context", "pw_new_page"}
    /\ ws.slot[c].cancel = "none"
    /\ ws' = WsFails(ws, c, "Exception")
    /\ WsOthersUnchanged

\* scrape_multiple(urls, concurrency, method=method) with two urls, up to its
\* await of gather: the semaphore, and a task for each url
WsScrapeMultiple(concurrency, method) ==
    /\ ws.multi = "none"
    /\ \A c \in WsCallers : ws.slot[c].pc = "idle"
    /\ ws.calls + 2 <= MaxWsRequests
    /\ ws' = [ws EXCEPT
                 !.calls = @ + 2,
                 !.multi = "gathering",
                 !.sem = [value |-> concurrency, waiters |-> << >>, woken |-> {}],
                 !.returned = "none",
                 !.slot = [c \in WsCallers |->
                             [IdleSlot EXCEPT !.pc = "created", !.via = "multiple",
                                              !.method = method]]]
    /\ WsOthersUnchanged

\* a task of scrape_multiple starts (the tasks start in the order of the
\* urls): "async with semaphore", then scrape
WsWrapperStart(c, inp) ==
    /\ ws.slot[c].pc = "created"
    /\ ws.slot[c].cancel = "none"
    /\ c = "s2" => ws.slot["s1"].pc # "created"
    /\ ws' = IF SemLocked(ws)
             THEN [ws EXCEPT !.sem.waiters = Append(@, c), !.slot[c].pc = "sem"]
             ELSE WsScrape([ws EXCEPT !.sem.value = @ - 1], c, inp)
    /\ WsOthersUnchanged

\* the task that release has given a permit goes on into scrape
WsSemAcquired(c, inp) ==
    /\ ws.slot[c].pc = "sem"
    /\ c \in ws.sem.woken
    /\ ws.slot[c].cancel = "none"
    /\ LET w1 == [ws EXCEPT !.sem.waiters = Remove(@, c), !.sem.woken = @ \ {c}]
           w2 == IF w1.sem.value > 0 THEN SemWakeUpNext(w1) ELSE w1
       IN ws' = WsScrape(w2, c, inp)
    /\ WsOthersUnchanged

\* the kind of the cancellation of the task of c
WsCancelKind(w, c) ==
    IF \/ w.slot[c].pc = "limiter_lock" /\ ~WsLimiterWoken(w, c)
       \/ w.slot[c].pc = "sem" /\ c \notin w.sem.woken
    THEN "future" ELSE "task"

\* the task that runs a direct scrape, suspended, is cancelled
WsCancel(c) ==
    /\ ws.multi = "none"
    /\ ws.slot[c].pc # "idle"
    /\ ws.slot[c].cancel = "none"
    /\ ws' = [ws EXCEPT !.slot[c].cancel = WsCancelKind(ws, c)]
    /\ WsOthersUnchanged

\* the task that awaits scrape_multiple is cancelled: gather cancels every
\* task of its that is not done
WsCancelMultiple ==
    /\ ws.multi = "gathering"
    /\ ws' = [ws EXCEPT
                 !.multi = "cancelling",
                 !.slot = [c \in WsCallers |->
                             IF ws.slot[c].pc # "done" /\ ws.slot[c].cancel = "none"
                             THEN [ws.slot[c] EXCEPT !.cancel = WsCancelKind(ws, c)]
                             ELSE ws.slot[c]]]
    /\ WsOthersUnchanged

\* the task of scrape_with_semaphore ends on CancelledError before it has
\* called scrape
WsNotScraped(w, c) ==
    [w EXCEPT !.slot[c] = [IdleSlot EXCEPT !.pc = "done", !.via = "multiple"]]

\* the cancelled task runs: CancelledError is raised at its await
WsCancelled(c) ==
    /\ ws.slot[c].cancel # "none"
    /\ LET pc == ws.slot[c].pc
       IN ws' =
          CASE pc = "created" -> WsNotScraped(ws, c)
            [] pc = "sem" ->
                 LET w1 == [ws EXCEPT !.sem.waiters = Remove(@, c), !.sem.woken = @ \ {c}]
                 IN WsNotScraped(IF c \in ws.sem.woken THEN SemRelease(w1) ELSE w1, c)
            [] pc = "limiter_lock" ->
                 WsRaises([ws EXCEPT !.limiter.waiters = Remove(@, c)], c, "CancelledError")
            [] pc = "limiter_sleep" ->
                 WsRaises([ws EXCEPT !.limiter.holder = "none"], c, "CancelledError")
            [] pc = "pw_page" ->
                 [ws EXCEPT !.slot[c].outcome = "CancelledError", !.slot[c].cancel = "none",
                            !.slot[c].pc = "pw_close"]
            [] OTHER -> WsRaises(ws, c, "CancelledError")
    /\ WsOthersUnchanged

\* every task of gather is done: scrape_multiple returns the list of what
\* the tasks returned or raised, or raises CancelledError when it was
\* cancelled
WsMultipleReturn ==
    /\ ws.multi # "none"
    /\ \A c \in WsCallers : ws.slot[c].pc = "done"
    /\ ws' = [ws EXCEPT
                 !.multi = "none",
                 !.returned = IF ws.multi = "cancelling" THEN "CancelledError" ELSE "list",
                 !.slot = [c \in WsCallers |-> IdleSlot]]
    /\ WsOthersUnchanged

WsNext ==
    \/ \E c \in WsCallers, method \in Methods, inp \in WsInputs : WsScrapeCall(c, method, inp)
    \/ \E c \in WsCallers, inp \in WsInputs : WsLimiterLock(c, inp)
    \/ \E c \in WsCallers, inp \in WsInputs : WsLimiterWake(c, inp)
    \/ \E c \in WsCallers : WsPwStarted(c)
    \/ \E c \in WsCallers : WsPwLaunched(c)
    \/ \E c \in WsCallers, rotate \in BOOLEAN : WsPwContext(c, rotate)
    \/ \E c \in WsCallers : WsPwNewPage(c)
    \/ \E c \in WsCallers, ok \in BOOLEAN, status \in WsStatuses : WsPwPage(c, ok, status)
    \/ \E c \in WsCallers, ok \in BOOLEAN : WsPwClosed(c, ok)
    \/ \E c \in WsCallers : WsPwError(c)
    \/ \E concurrency \in Concurrencies, method \in Methods : WsScrapeMultiple(concurrency, method)
    \/ \E c \in WsCallers, inp \in WsInputs : WsWrapperStart(c, inp)
    \/ \E c \in WsCallers, inp \in WsInputs : WsSemAcquired(c, inp)
    \/ \E c \in WsCallers : WsCancel(c)
    \/ WsCancelMultiple
    \/ \E c \in WsCallers : WsCancelled(c)
    \/ WsMultipleReturn

SpecScraper == WsInit /\ [][WsNext]_vars

\* C26: a fetch answered with 404 ends with success = False.
C26_NotFoundIsFailure ==
    ws.last.answered = 404 => ~ws.last.success

\* ---------------------------------------------------------------------------
\* RateLimiter.acquire with cancellation: the task of a caller that waits for
\* the lock or sleeps inside it may be cancelled.
\* ---------------------------------------------------------------------------

\* a cancellation that would leave the lock with the cancelled caller
RLCancelledKeepsLock(r, c) ==
    [r EXCEPT !.waiters = Remove(@, c), !.cancel[c] = "none", !.pc[c] = "idle"]

\* CancelledError is raised at the await of caller c: a caller that waits
\* for the lock leaves the waiters (and the first of them is woken if the
\* lock is unlocked), a caller that sleeps leaves acquire through "async with
\* self._lock", which releases the lock; neither reaches an assignment to
\* tokens
RLCancelled(r, c) ==
    [r EXCEPT !.lock = IF @ = c THEN "none" ELSE @,
              !.waiters = Remove(@, c),
              !.cancel[c] = "none",
              !.pc[c] = "idle"]

\* the task of caller c, suspended inside acquire, is cancelled: the future
\* of a waiter that has not been woken is cancelled at once, CancelledError
\* reaches the task when it runs next
RLCancel(c) ==
    /\ rl.pc[c] \in {"wait_lock", "sleeping"}
    /\ rl.cancel[c] = "none"
    /\ rl' = [rl EXCEPT !.cancel[c] = IF rl.pc[c] = "wait_lock" /\ ~RLWoken(rl, c)
                                      THEN "waiter" ELSE "task"]
    /\ RLOthersUnchanged

\* the cancelled task runs
RLCancelDelivered(c) ==
    /\ rl.cancel[c] # "none"
    /\ rl' = RLCancelled(rl, c)
    /\ RLOthersUnchanged

\* past MaxTime the clock still advances up to the end of a sleep
RLTickToWake ==
    /\ rl.time >= MaxTime
    /\ \E c \in RLCallers : rl.pc[c] = "sleeping" /\ rl.time < rl.wake
    /\ rl' = [rl EXCEPT !.time = @ + 1]
    /\ RLOthersUnchanged

RLCancelNext ==
    \/ \E c \in RLCallers : RLAcquireCall(c)
    \/ \E c \in RLCallers : RLAcquireLock(c)
    \/ \E c \in RLCallers : RLWake(c)
    \/ RLTick
    \/ RLTickToWake
    \/ \E c \in RLCallers : RLCancel(c)
    \/ \E c \in RLCallers : RLCancelDelivered(c)

SpecRLCancel == RLInit /\ [][RLCancelNext]_vars

\* the clock advances, a woken waiter and a cancelled task run, a sleep that
\* is over ends
FairSpecRLCancel ==
    /\ SpecRLCancel
    /\ WF_vars(RLTick \/ RLTickToWake)
    /\ \A c \in RLCallers :
          WF_vars(RLAcquireLock(c)) /\ WF_vars(RLWake(c)) /\ WF_vars(RLCancelDelivered(c))

\* the tokens a caller finds in the bucket now: what acquire computes before
\* it takes one
RLLevel(r) == RLRefill(r.tokens, r.time - r.last_update, r.burst)

\* C30: tokens leave the bucket only in a step in which an acquire returns, so
\* none is taken for a call that ends cancelled; the lock is held only by a
\* caller that is inside acquire, so a cancelled caller has released it; and
\* every pending acquire returns unless its own task is cancelled.
C30_CancelledAcquireLeavesLimiter ==
    /\ [][RLLevel(rl)' < RLLevel(rl) => Len(rl'.returns) > Len(rl.returns)]_vars
    /\ [](\A c \in RLCallers : rl.lock = c => rl.pc[c] = "sleeping")
    /\ \A c \in RLCallers :
          (rl.pc[c] # "idle" /\ rl.cancel[c] = "none")
              ~> (rl.pc[c] = "idle" \/ rl.cancel[c] # "none")

\* a caller was cancelled (a call that neither returned nor is pending), the
\* lock is free, the part of a token in the bucket is still there and a
\* caller that waits for the lock can go on
C30_Witness ==
    /\ rl.calls > Len(rl.returns) + Cardinality({c \in RLCallers : rl.pc[c] # "idle"})
    /\ rl.lock = "none"
    /\ rl.tokens > 0
    /\ rl.tokens < TokenUnit
    /\ \E c \in RLCallers : rl.pc[c] = "wait_lock"

\* ---------------------------------------------------------------------------
\* The end of the background tasks: ProxyPool.shutdown (proxy_pool.py) and
\* stop_checker (anti_detection.py).
\* ---------------------------------------------------------------------------

\* shutdown, up to its first suspension: _running = False; a validation
\* task that is running is cancelled and awaited, so that shutdown is
\* suspended until the task has ended; with no validation task, or one that
\* has ended, shutdown goes on to _save_proxies and returns at once.
Shutdown ==
    /\ bg.pc \in {"none", "sleep", "wait", "done"}
    /\ IF bg.pc \in {"sleep", "wait"}
       THEN /\ bg' = [bg EXCEPT !.pc = "cancelling"]
            /\ file' = file
       ELSE /\ bg' = [bg EXCEPT !.shutdown = TRUE]
            /\ file' = save_proxies(heap, proxies, file)
    /\ UNCHANGED <<heap, proxies, lock, task, auto_fetch, now, ad, rl, hist, cap, px, rm, mw, ws>>

\* the cancelled validation task runs: CancelledError is raised at the await
\* it is in and _validation_loop leaves at its "except CancelledError:
\* break"; the entry under test stays TESTING
BgCancelled ==
    /\ bg.pc = "cancelling"
    /\ bg' = [bg EXCEPT !.pc = "cancelled", !.queue = << >>]
    /\ UNCHANGED <<heap, proxies, lock, task, file, auto_fetch, now, ad, rl, hist, cap, px, rm, mw, ws>>

\* shutdown is resumed by the end of the task: _save_proxies, return
ShutdownSave ==
    /\ bg.pc = "cancelled"
    /\ bg' = [bg EXCEPT !.pc = "done", !.shutdown = TRUE]
    /\ file' = save_proxies(heap, proxies, file)
    /\ UNCHANGED <<heap, proxies, lock, task, auto_fetch, now, ad, rl, hist, cap, px, rm, mw, ws>>

\* a step of the checker task of anti_detection.py
ADCheckerStep ==
    \/ ADAcquire("checker")
    \/ ADCheckerRound
    \/ \E results \in [1..Len(ad.proxies) -> ADProbeOutcomes] : ADCheckerProbed(results)

\* A run is of one of the two pools: of the pool of proxy_pool.py, set up
\* with auto_fetch, or of the pool of anti_detection.py, which has no
\* auto_fetch.
StopInit == (PoolInit /\ auto_fetch) \/ ADInit

StopNext ==
    \/ auto_fetch /\ ClientNext("t1")
    \/ auto_fetch /\ BgNext
    \/ auto_fetch /\ Shutdown
    \/ auto_fetch /\ BgCancelled
    \/ auto_fetch /\ ShutdownSave
    \/ ~auto_fetch /\ ADClientNext("f1")
    \/ ~auto_fetch /\ ADCheckerNext

SpecStop == StopInit /\ [][StopNext]_vars

\* C31: once shutdown has returned (and initialize was not called afterwards)
\* the validation task of the pool is not alive: it was never created or has
\* ended, so that it validates no candidate, and it does not hold the pool
\* lock; once stop_checker has returned, and until start_checker creates a
\* task again, the checker task has ended: it has no cancellation pending,
\* and neither holds the pool lock nor waits for it.
C31_StoppedTaskIsOver ==
    /\ (auto_fetch /\ bg.shutdown) =>
          /\ bg.pc \in {"none", "done"}
          /\ bg.queue = << >>
          /\ lock.holder # "bg"
    /\ (~auto_fetch /\ ad.pc["checker"] = "off") =>
          /\ ad.cancel = "none"
          /\ ad.lock # "checker"
          /\ ~InSeq(ad.waiters, "checker")

\* ---------------------------------------------------------------------------
\* _save_proxies followed by _load_proxies into a new pool (proxy_pool.py)
\* ---------------------------------------------------------------------------

\* the pool a new ProxyPool holds after _load_proxies of the saved data
Reloaded(data) == load_proxies([heap |-> << >>, proxies |-> << >>, added |-> 0], data)

\* the proxy_url of the candidates of a list of objects
UrlsOf(h, objs) == {h[objs[i]].proxy_url : i \in 1..Len(objs)}

\* C32: whenever _save_proxies writes the pool, a pool that loads the file
\* holds the same candidates with the same fields, and the two filters of
\* get_proxy let through the same candidates as before the save.
C32_ReloadKeepsPool ==
    [][file' # file =>
          LET st == Reloaded(file')
          IN /\ Len(st.proxies) = Len(proxies')
             /\ \A i \in 1..Len(proxies') :
                   st.heap[st.proxies[i]] = heap'[proxies'[i]]
             /\ \A q \in Thresholds :
                   UrlsOf(st.heap, Available(st.heap, st.proxies, q))
                       = UrlsOf(heap', Available(heap', proxies', q))
             /\ UrlsOf(st.heap, Fallback(st.heap, st.proxies))
                   = UrlsOf(heap', Fallback(heap', proxies'))
      ]_vars

\* what the strategies and the dispatch of scrape raise
StrategyErrors == {"TypeError", "ValueError", "Exception", "AttributeError"}

\* C33: a scrape that has ended has raised nothing to its caller, and one that
\* ended on an exception of its strategy has returned a ScrapingResult with
\* success = False and the error set.
C33_ScrapeReturnsErrors ==
    /\ ~ws.last.raised
    /\ ws.last.error \in StrategyErrors => ~ws.last.success

\* C34: a release_proxy(proxy, success=False) of a client that has brought
\* fail_count to 3 and goes on to remove_proxy returns: the proxy is then
\* DEAD and in neither proxies nor active_proxies, and the lock is not with
\* the caller any more.
C34_FailingReleaseCompletes ==
    \A c \in ADTasks, p \in ADProxies :
        (ad.pc[c] = "rel_remove_lock" /\ ad.arg[c].proxy = p)
            ~> /\ ad.pc[c] = "idle"
               /\ ad.lock # c
               /\ ad.obj[p].quality = "dead"
               /\ ~InSeq(ad.proxies, p)
               /\ ~InSeq(ad.active, p)

\* ---------------------------------------------------------------------------
\* ProxyMiddleware (anti_spider.py) and RetryMiddleware (base.py) on one
\* request.  The repository sets no DOWNLOADER_MIDDLEWARES order: proxy_inner
\* tells that ProxyMiddleware is the nearer of the two to the downloader, so
\* that its process_response and process_exception run first.  The engine
\* calls process_exception and process_response of one middleware after the
\* other and stops at the first that returns a Request, which it schedules.
\* request.proxy_info is 0 while request.meta has no 'proxy' key.
\* ---------------------------------------------------------------------------

ChainInputs ==
    {[which |-> "chain", proxy_enabled |-> en, proxy_inner |-> pin,
      max_retry_times |-> m, objs |-> os, proxies |-> ps,
      current_index |-> 0, failed_proxies |-> {}, outcomes |-> 0,
      request |-> [url |-> "http://a/1", retry_times |-> 0, dont_filter |-> FALSE,
                   priority |-> 0, proxy_info |-> 0],
      failed_urls |-> << >>, pc |-> "scheduled", last |-> NoEvent] :
        en \in BOOLEAN, pin \in BOOLEAN, m \in 1..RETRY_TIMES,
        os \in [1..2 -> MwProxyObjects], ps \in {<< >>, <<1>>, <<1, 2>>}}

ChainInit ==
    /\ mw \in ChainInputs
    /\ heap = << >>
    /\ proxies = << >>
    /\ lock = NoLock
    /\ task = [t \in Tasks |-> IdleTask]
    /\ file = << >>
    /\ auto_fetch = FALSE
    /\ bg = NoValidationTask
    /\ now = 0
    /\ ad = "unused"
    /\ rl = "unused"
    /\ hist = "unused"
    /\ cap = "unused"
    /\ px = "unused"
    /\ rm = "unused"
    /\ ws = "unused"

\* ProxyMiddleware.process_request on a request with 'proxy' in its meta:
\* the request is left as it is
KeepsProxy(request) == request.proxy_info # 0

\* ProxyMiddleware.process_request(request, spider) on the scheduled request
\* (the first fetch or a retry), and the request going out
ChProxyProcessRequest ==
    /\ mw.which = "chain"
    /\ mw.pc = "scheduled"
    /\ LET asks == mw.proxy_enabled /\ ~KeepsProxy(mw.request)
           proxy_info == IF asks THEN PxGetProxy ELSE mw.request.proxy_info
       IN mw' = [mw EXCEPT
                    !.request.proxy_info = proxy_info,
                    !.current_index = IF asks /\ proxy_info # 0 THEN @ + 1 ELSE @,
                    !.last = Event("request", 0, "none"),
                    !.pc = "downloading"]
    /\ MwOthersUnchanged

\* ProxyMiddleware.process_exception(request, exception, spider): returns None
ChProxyException(m) ==
    LET i == m.request.proxy_info IN
    IF i = 0 THEN m
    ELSE [MwPoolMarkFailure(m, i) EXCEPT !.failed_proxies = @ \cup {i}]

\* ProxyMiddleware.process_response(request, response, spider): with status
\* 200 on a request that has a proxy_info, the read of response.meta raises
\* AttributeError (the response is not tied to a request yet), nothing is
\* recorded and the fetch ends as a failure
ChProxyResponse(m, status) ==
    LET i == m.request.proxy_info IN
    IF i = 0 THEN m
    ELSE IF status = 200
    THEN [m EXCEPT !.pc = "failed", !.last = Event("raised", status, "none")]
    ELSE MwPoolMarkFailure(m, i)

\* the download raises a transport error: process_exception of the two
\* middlewares.  _retry returns request.copy(), meta included, or None
ChTransportFailure ==
    /\ mw.which = "chain"
    /\ mw.pc = "downloading"
    /\ LET m == [mw EXCEPT !.pc = "failed", !.last = Event("exception", 0, "none")]
       IN mw' = IF mw.proxy_inner
                THEN retry(ChProxyException(m))
                ELSE LET r == retry(m)
                     IN IF r.pc = "scheduled" THEN r ELSE ChProxyException(r)
    /\ MwOthersUnchanged

\* the download gives a response: process_response of the two middlewares,
\* the second of which is not called when the first raises or returns a
\* Request
ChResponse(status) ==
    /\ mw.which = "chain"
    /\ mw.pc = "downloading"
    /\ LET m == [mw EXCEPT !.pc = "delivered", !.last = Event("response", status, "none")]
           retried(x) == IF status \in RETRY_HTTP_CODES THEN retry(x) ELSE x
       IN mw' = IF mw.proxy_inner
                THEN LET p == ChProxyResponse(m, status)
                     IN IF p.pc = "failed" THEN p ELSE retried(p)
                ELSE LET r == retried(m)
                     IN IF r.pc = "scheduled" THEN r
                        ELSE ChProxyResponse(r, status)
    /\ MwOthersUnchanged

ChainNext ==
    \/ ChProxyProcessRequest
    \/ ChTransportFailure
    \/ \E status \in {200, 500} : ChResponse(status)

SpecChain == ChainInit /\ [][ChainNext]_vars

\* C35: when a retry of a request goes out, with the proxy middleware
\* enabled, the proxy it is given is the one the pool's selection yields at
\* that time, not the one kept from the fetch that failed.
C35_RetryReselectsProxy ==
    [][(/\ mw.pc = "scheduled"
        /\ mw'.pc = "downloading"
        /\ mw.request.retry_times > 0
        /\ mw.last.kind = "exception"
        /\ mw.proxy_enabled)
       => mw'.request.proxy_info = PxGetProxy
      ]_vars

\* ---------------------------------------------------------------------------
\* CaptchaSolver.solve of services/captcha_solver.py from its first line: the
\* image is loaded before the solvers are chosen.  image tells whether the
\* caller gave an image, an image_url or an image_path.
\* ---------------------------------------------------------------------------

CapServiceInputs ==
    {[impl |-> "service", captcha_type |-> ty, available |-> av, does |-> d,
      kwargs |-> {"site_key"}, preferred_solver |-> pref, image |-> im] :
        ty \in CaptchaTypes, av \in SUBSET ServiceSolvers,
        d \in [CapSolvers -> {"success", "failure"}],
        pref \in {NoSolver} \cup ServiceSolvers, im \in BOOLEAN}

CapServiceInit ==
    /\ \E inp \in CapServiceInputs :
          cap = [inp |-> inp, pc |-> "idle", i |-> 1, attempts |-> << >>,
                 result |-> NoResult]
    /\ heap = << >>
    /\ proxies = << >>
    /\ lock = NoLock
    /\ task = [t \in Tasks |-> IdleTask]
    /\ file = << >>
    /\ auto_fetch = FALSE
    /\ bg = NoValidationTask
    /\ now = 0
    /\ ad = "unused"
    /\ rl = "unused"
    /\ hist = "unused"
    /\ px = "unused"
    /\ rm = "unused"
    /\ mw = "unused"
    /\ ws = "unused"

\* solve up to its cascade: without an image source it returns
\* CaptchaResult(success=False, error="No image source provided")
CapServiceSolveCall ==
    /\ cap.pc = "idle"
    /\ cap' = IF cap.inp.image
              THEN [cap EXCEPT !.pc = "cascade"]
              ELSE [cap EXCEPT !.result = NoResult, !.pc = "returned"]
    /\ CapOthersUnchanged

CapServiceNext ==
    \/ CapServiceSolveCall
    \/ CapStrategySucceeds
    \/ CapStrategyFails
    \/ CapStrategyRaises
    \/ CapNoStrategyLeft

SpecCapService == CapServiceInit /\ [][CapServiceNext]_vars

\* C36: a solve for a reCAPTCHA or hCaptcha challenge given by site_key and
\* page_url alone, with a remote solver configured that the cascade would
\* ask, has invoked a remote solver when it returns.
C36_RemoteInvokedWithoutImage ==
    (/\ cap.pc = "returned"
     /\ cap.inp.captcha_type = RECAPTCHA_V2
     /\ ~cap.inp.image
     /\ \E k \in 1..Len(CascadeOrder) : CascadeOrder[k] \in RemoteSolvers)
    => \E j \in 1..Len(cap.attempts) : cap.attempts[j].solver \in RemoteSolvers

\* C37: in every step, whatever the interleaving of mark_success,
\* mark_failure and the validations of clients and of the background loop,
\* no counter of a ProxyInfo decreases, and total_requests is the sum of
\* success_count and failure_count.
C37_CountersMonotone ==
    [][/\ \A o \in DOMAIN heap :
             /\ heap'[o].success_count >= heap[o].success_count
             /\ heap'[o].failure_count >= heap[o].failure_count
             /\ heap'[o].total_requests >= heap[o].total_requests
       /\ \A o \in DOMAIN heap' :
             heap'[o].total_requests
                 = heap'[o].success_count + heap'[o].failure_count
      ]_vars

\* a candidate with successes and failures recorded, some of them by the
\* background loop, while the loop has it under test again
C37_Witness ==
    /\ bg.pc = "wait"
    /\ LET o == Head(bg.queue)
       IN /\ heap[o].success_count >= 1
          /\ heap[o].failure_count >= 2
          /\ heap[o].total_requests = 3

\* the clients that hold proxy p: get_proxy has returned it to them and the
\* body of their release_proxy has not run yet
ADHolders(p) ==
    {c \in ADTasks : ad.pc[c] \in {"using", "rel_lock"} /\ ad.arg[c].proxy = p}

\* C38: no proxy is held by two clients at a time (get_proxy returns no proxy
\* that another client holds); active_proxies holds no proxy twice, and every
\* proxy of active_proxies is in proxies.
C38_ProxyHeldByOne ==
    /\ \A p \in ADProxies : Cardinality(ADHolders(p)) <= 1
    /\ \A i, j \in DOMAIN ad.active : ad.active[i] = ad.active[j] => i = j
    /\ \A i \in DOMAIN ad.active : InSeq(ad.proxies, ad.active[i])

\* C39: the adaptive delay of AntiSpiderMiddleware never decreases: neither
\* the handling of a 429 response nor the adjustment after more than
\* RequestCountThreshold requests of a domain sets it below its current value.
C39_DelayNeverDecreases ==
    [][mw.which = "antispider" => mw'.delay >= mw.delay]_vars

\* ---------------------------------------------------------------------------
\* ProxyRotator on its own (services/scraper.py): any caller, any order of
\* get_proxy, mark_failed and mark_success.  ws holds the rotator; last is
\* the last call made on it and returned what get_proxy returned.
\* ---------------------------------------------------------------------------

\* the longest proxy_list
MaxRotLen == 3
\* the strings passed to mark_failed and mark_success: the proxies of the
\* lists and one that is in no list
RotNames == {WsProxies[i] : i \in DOMAIN WsProxies} \cup {"other"}

RotInit ==
    /\ \E n \in 0..MaxRotLen :
          \E l \in [1..n -> {WsProxies[i] : i \in DOMAIN WsProxies}] :
             ws = [proxy_list |-> l, current_index |-> 0,
                   failed_proxies |-> {}, pc |-> "rotator",
                   last |-> "init", returned |-> NoProxy]
    /\ heap = << >>
    /\ proxies = << >>
    /\ lock = NoLock
    /\ task = [t \in Tasks |-> IdleTask]
    /\ file = << >>
    /\ auto_fetch = FALSE
    /\ bg = NoValidationTask
    /\ now = 0
    /\ ad = "unused"
    /\ rl = "unused"
    /\ hist = "unused"
    /\ cap = "unused"
    /\ px = "unused"
    /\ rm = "unused"
    /\ mw = "unused"

\* ProxyRotator.get_proxy()
RotGetProxy(rotate) ==
    /\ ws.pc = "rotator"
    /\ LET g == rotator_get_proxy(ws, rotate)
       IN ws' = [ws EXCEPT !.current_index = g.current_index,
                           !.returned = g.proxy, !.last = "get_proxy"]
    /\ WsOthersUnchanged

\* ProxyRotator.mark_failed(proxy)
RotMarkFailed(proxy) ==
    /\ ws.pc = "rotator"
    /\ ws' = [ws EXCEPT !.failed_proxies = @ \cup {proxy},
                        !.last = "mark_failed"]
    /\ WsOthersUnchanged

\* ProxyRotator.mark_success(proxy)
RotMarkSuccess(proxy) ==
    /\ ws.pc = "rotator"
    /\ ws' = [ws EXCEPT !.failed_proxies = @ \ {proxy},
                        !.last = "mark_success"]
    /\ WsOthersUnchanged

RotNext ==
    \/ \E rotate \in BOOLEAN : RotGetProxy(rotate)
    \/ \E proxy \in RotNames : RotMarkFailed(proxy)
    \/ \E proxy \in RotNames : RotMarkSuccess(proxy)

SpecRotator == RotInit /\ [][RotNext]_vars

\* every proxy of proxy_list is in failed_proxies (so for the empty list too)
AllFailed(w) ==
    \A i \in DOMAIN w.proxy_list : w.proxy_list[i] \in w.failed_proxies

\* C40: after any sequence of get_proxy, mark_failed and mark_success,
\* get_proxy returns no proxy that is in failed_proxies at the time of the
\* call, and it returns None exactly when proxy_list is empty or every proxy
\* of proxy_list is in failed_proxies.
C40_RotatorSkipsFailed ==
    ws.last = "get_proxy" =>
        /\ ws.returned # NoProxy =>
              /\ ws.returned \notin ws.failed_proxies
              /\ ws.returned = ws.proxy_list[ws.current_index + 1]
        /\ ws.returned = NoProxy <=> AllFailed(ws)

\* get_proxy was called on a list of three whose first two entries have
\* failed, and returned the third
C40_Witness ==
    /\ ws.last = "get_proxy"
    /\ Len(ws.proxy_list) = 3
    /\ ws.returned # NoProxy
    /\ ws.current_index = 2
    /\ ws.proxy_list[1] \in ws.failed_proxies
    /\ ws.proxy_list[2] \in ws.failed_proxies

====
